-------------------------- MODULE QMediaPlayer_proof --------------------------
(***************************************************************************)
(* Proofs about media players, for any contents, lists, histories, buses   *)
(* and nesting of slots.                                                   *)
(*                                                                         *)
(* First about QMediaPlaylistNavigator: the current item is that of the    *)
(* list, the player hears of it last, the history is never left, and one   *)
(* step ahead is told rightly.                                             *)
(*                                                                         *)
(* Then about QMediaPlayer, which is the machine of playlist, player and   *)
(* control: the control has the current item and the player knows its      *)
(* state, whoever calls whom inside whose call; a list is played through;  *)
(* what plays runs and begins at the start.  The agenda of the playlist is *)
(* then that of the player too, so that the lemmas of the first part are   *)
(* about agendas with other tasks among those of the playlist.             *)
(***************************************************************************)
EXTENDS QMediaPlayer, SequenceTheorems, TLAPS

(***************************************************************************)
(* I.  The playlist.                                                       *)
(***************************************************************************)

\* Types, but for the agenda.
ListTypeOK ==
    /\ resources \in Seq(Media) /\ Count <= MaxItems
    /\ playbackMode \in Modes
    /\ currentPos \in Position
    /\ currentItem \in Media \cup {NoContent}
    /\ randomModePositions \in Seq(Position)
    /\ randomPositionsOffset \in Int
    /\ {fault, inSlot} \subseteq BOOLEAN
    /\ heardMedia \in Media \cup {NoContent}
    /\ heardIndex \in Position
    /\ promise \in Seq(Promise)

\* The agenda, which may have other tasks than those of the playlist.
Work(T) ==
    /\ NavTask \subseteq T
    /\ \A t \in T : t.do \in {"currentIndexChanged", "activated", "update"} => t \in NavTask
    /\ agenda \in Seq(T)

\* In random mode the current place is in the history; else there is none.
HistoryShape ==
    ~fault => IF playbackMode = "Random"
              THEN randomPositionsOffset \in 0 .. Len(randomModePositions) - 1
              ELSE randomPositionsOffset = -1 /\ randomModePositions = <<>>

ListInv == ListTypeOK /\ CurrentIsItem /\ HistoryShape

NavInv(T) == ListInv /\ Work(T)

\* A copy waits only at the front, and nobody calls until it is heard.
CopyIsCurrent ==
    \A k \in 1 .. Len(agenda) :
        agenda[k].do \in {"activated", "update"} /\ agenda[k].copy # <<>>
            => k = 1 /\ ~inSlot /\ agenda[k].copy[1] = currentItem

\* The player has heard of the current item, or will hear of an item.
HearsYet ==
    \/ heardMedia = currentItem
    \/ \E k \in 1 .. Len(agenda) : agenda[k].do \in {"activated", "update"}

HearInv == CopyIsCurrent /\ HearsYet

\* The answer that was given is the only one there is.
Foreseen ==
    promise # <<>> =>
        /\ promise[1].left \in {0, 1}
        /\ promise[1].left = 0 => currentPos = promise[1].at
        /\ promise[1].left = 1 =>
              \A a \in IF promise[1].way = "next" THEN nextItemPos(1)
                                                  ELSE previousItemPos(1) :
                  a.pos = promise[1].at

-----------------------------------------------------------------------------
(* The answers of nextItemPos and previousItemPos.                         *)

LEMMA PositionFacts ==
    ASSUME ListTypeOK
    PROVE  /\ Count \in Nat /\ MaxItems \in Nat /\ Count <= MaxItems
           /\ -1 .. Count - 1 \subseteq Position
           /\ \A p \in 0 .. Count - 1 : p \in Position /\ resources[p + 1] \in Media
<1>1. resources \in Seq(Media) /\ Count <= MaxItems /\ MaxItems \in Nat
  BY NavigatorAssumption DEF ListTypeOK
<1>2. Count \in Nat
  BY <1>1 DEF Count
<1> QED
  BY <1>1, <1>2 DEF Count, Position

LEMMA OpenFacts ==
    ASSUME NEW n \in Int, MaxItems \in Nat
    PROVE  /\ Open(n) \in Seq(Position)
           /\ Len(Open(n)) = IF n > 0 THEN n ELSE 0
           /\ n <= 0 => Open(n) = <<>>
<1>1. CASE n > 0
  <2>1. Open(n) = [k \in 1 .. n |-> -1] /\ n \in Nat /\ -1 \in Position
    BY <1>1 DEF Open, Position
  <2>2. [k \in 1 .. n |-> -1] \in Seq(Position)
    BY <2>1, IsASeq
  <2> QED
    BY <1>1, <2>1, <2>2
<1>2. CASE n <= 0
  BY <1>2 DEF Open
<1> QED
  BY <1>1, <1>2

\* A choice stays in the list and is written down.
LEMMA EntryFacts ==
    ASSUME ListTypeOK,
           NEW positions \in Seq(Position), NEW offset \in Int,
           NEW k \in 0 .. Len(positions) - 1,
           NEW a \in Entry(History(positions, offset), k)
    PROVE  /\ a.pos \in 0 .. Count - 1
           /\ a.history.positions \in Seq(Position)
           /\ Len(a.history.positions) = Len(positions)
           /\ a.history.offset = offset
           /\ a.history.positions[k + 1] = a.pos
           /\ positions[k + 1] \in 0 .. Count - 1 => a.pos = positions[k + 1]
<1> DEFINE h == History(positions, offset)
           p == positions[k + 1]
<1>1. h.positions = positions /\ h.offset = offset
  BY DEF History
<1>2. CASE p \in 0 .. Count - 1
  <2>1. a = [pos |-> p, history |-> h]
    BY <1>1, <1>2 DEF Entry
  <2> QED
    BY <1>1, <1>2, <2>1
<1>3. CASE p \notin 0 .. Count - 1
  <2>1. PICK r \in 0 .. Count - 1 :
            a = [pos |-> r, history |-> [h EXCEPT !.positions[k + 1] = r]]
    BY <1>1, <1>3 DEF Entry
  <2>2. r \in Position
    BY PositionFacts
  <2>3. /\ [h EXCEPT !.positions[k + 1] = r].positions = [positions EXCEPT ![k + 1] = r]
        /\ [h EXCEPT !.positions[k + 1] = r].offset = offset
    BY DEF History
  <2>4. /\ [positions EXCEPT ![k + 1] = r] \in Seq(Position)
        /\ Len([positions EXCEPT ![k + 1] = r]) = Len(positions)
        /\ [positions EXCEPT ![k + 1] = r][k + 1] = r
    BY <2>2, ExceptSeq
  <2> QED
    BY <1>3, <2>1, <2>3, <2>4
<1> QED
  BY <1>2, <1>3

\* An answer and what is left of the history, where move steps lead to it.
Leads(a, move) ==
    /\ a.pos \in -1 .. Count - 1
    /\ a.history.positions \in Seq(Position) /\ a.history.offset \in Int
    /\ playbackMode # "Random" \/ Count = 0 =>
          /\ a.history.positions = randomModePositions
          /\ a.history.offset = randomPositionsOffset
    /\ playbackMode = "Random" /\ Count > 0 =>
          /\ a.pos \in 0 .. Count - 1
          /\ a.history.offset \in 0 .. Len(a.history.positions) - 1
          /\ a.history.offset + move \in 0 .. Len(a.history.positions) - 1
          /\ a.history.positions[a.history.offset + move + 1] = a.pos

LEMMA AnswerFacts ==
    ASSUME ListTypeOK, NEW move, NEW p \in -1 .. Count - 1, NEW a \in Answer(p),
           playbackMode # "Random" \/ Count = 0
    PROVE  Leads(a, move)
<1>1. a = [pos |-> p, history |-> ThisHistory]
  BY DEF Answer
<1>2. /\ a.pos = p
      /\ a.history.positions = randomModePositions
      /\ a.history.offset = randomPositionsOffset
  BY <1>1 DEF ThisHistory, History
<1>3. randomModePositions \in Seq(Position) /\ randomPositionsOffset \in Int
  BY DEF ListTypeOK
<1>4. ~(playbackMode = "Random" /\ Count > 0)
  BY PositionFacts
<1> QED
  BY <1>2, <1>3, <1>4 DEF Leads

LEMMA StartedFacts ==
    ASSUME ListInv, ~fault, playbackMode = "Random"
    PROVE  /\ Started = ThisHistory
           /\ Started.positions = randomModePositions
           /\ Started.offset = randomPositionsOffset
           /\ Started.positions \in Seq(Position)
           /\ Started.offset \in 0 .. Len(Started.positions) - 1
<1>1. /\ randomModePositions \in Seq(Position)
      /\ randomPositionsOffset \in 0 .. Len(randomModePositions) - 1
  BY DEF ListInv, HistoryShape, ListTypeOK
<1>2. randomPositionsOffset # -1
  BY <1>1
<1>3. Started = ThisHistory
  BY <1>2 DEF Started
<1> QED
  BY <1>1, <1>3 DEF ThisHistory, History

LEMMA Ahead ==
    ASSUME ListTypeOK, NEW s \in Seq(Position), NEW offset \in 0 .. Len(s) - 1,
           NEW steps \in Nat \ {0},
           NEW a \in Entry(History(s \o Open(offset + steps + 1 - Len(s)), offset),
                           offset + steps)
    PROVE  /\ a.pos \in 0 .. Count - 1
           /\ a.history.positions \in Seq(Position)
           /\ a.history.offset \in 0 .. Len(a.history.positions) - 1
           /\ a.history.offset + steps \in 0 .. Len(a.history.positions) - 1
           /\ a.history.positions[a.history.offset + steps + 1] = a.pos
<1> DEFINE missing == offset + steps + 1 - Len(s)
<1>1. missing \in Int /\ Len(s) \in Nat
  OBVIOUS
<1>2. PICK t \in Seq(Position) :
          t = Open(missing) /\ Len(t) = IF missing > 0 THEN missing ELSE 0
  BY <1>1, OpenFacts, PositionFacts
<1>3. PICK l \in Seq(Position) : l = s \o t /\ Len(l) = Len(s) + Len(t)
  BY ConcatProperties
<1>4. offset \in 0 .. Len(l) - 1 /\ offset + steps \in 0 .. Len(l) - 1
  BY <1>1, <1>2, <1>3
<1>5. PICK k \in 0 .. Len(l) - 1 : k = offset + steps
  BY <1>4
<1>6. a \in Entry(History(l, offset), k)
  BY <1>2, <1>3, <1>5
<1>7. /\ a.pos \in 0 .. Count - 1
      /\ a.history.positions \in Seq(Position)
      /\ Len(a.history.positions) = Len(l)
      /\ a.history.offset = offset
      /\ a.history.positions[k + 1] = a.pos
  BY <1>6, EntryFacts
<1> QED
  BY <1>4, <1>5, <1>7

LEMMA Behind ==
    ASSUME ListTypeOK, NEW s \in Seq(Position), NEW offset \in 0 .. Len(s) - 1,
           NEW steps \in Nat \ {0},
           NEW o, o = IF steps - offset > 0 THEN steps ELSE offset,
           NEW a \in Entry(History(Open(steps - offset) \o s, o), o - steps)
    PROVE  /\ a.pos \in 0 .. Count - 1
           /\ a.history.positions \in Seq(Position)
           /\ a.history.offset \in 0 .. Len(a.history.positions) - 1
           /\ a.history.offset + (-steps) \in 0 .. Len(a.history.positions) - 1
           /\ a.history.positions[a.history.offset + (-steps) + 1] = a.pos
<1> DEFINE missing == steps - offset
<1>1. missing \in Int /\ Len(s) \in Nat
  OBVIOUS
<1>2. PICK t \in Seq(Position) :
          t = Open(missing) /\ Len(t) = IF missing > 0 THEN missing ELSE 0
  BY <1>1, OpenFacts, PositionFacts
<1>3. PICK l \in Seq(Position) : l = t \o s /\ Len(l) = Len(t) + Len(s)
  BY ConcatProperties
<1>4. o \in 0 .. Len(l) - 1 /\ o + (-steps) \in 0 .. Len(l) - 1
  BY <1>1, <1>2, <1>3
<1>5. PICK k \in 0 .. Len(l) - 1 : k = o - steps /\ k = o + (-steps)
  BY <1>4
<1>6. a \in Entry(History(l, o), k)
  BY <1>2, <1>3, <1>5
<1>7. /\ a.pos \in 0 .. Count - 1
      /\ a.history.positions \in Seq(Position)
      /\ Len(a.history.positions) = Len(l)
      /\ a.history.offset = o
      /\ a.history.positions[k + 1] = a.pos
  BY <1>4, <1>6, EntryFacts
<1> QED
  BY <1>4, <1>5, <1>7

LEMMA NextAnswers ==
    ASSUME ListInv, ~fault, NEW steps \in Nat \ {0}, NEW a \in nextItemPos(steps)
    PROVE  Leads(a, steps)
<1>1. /\ ListTypeOK /\ Count \in Nat /\ currentPos \in -1 .. Count - 1
      /\ playbackMode \in {"CurrentItemOnce", "CurrentItemInLoop", "Sequential",
                           "Loop", "Random"}
  BY PositionFacts, NavigatorAssumption DEF ListInv, ListTypeOK, CurrentIsItem
<1>2. CASE Count = 0 \/ playbackMode = "CurrentItemOnce"
  <2>1. a \in Answer(-1)
    BY <1>1, <1>2 DEF nextItemPos
  <2> QED
    BY <1>1, <1>2, <2>1, AnswerFacts
<1>3. CASE Count > 0 /\ playbackMode = "CurrentItemInLoop"
  <2>1. a \in Answer(currentPos)
    BY <1>1, <1>3 DEF nextItemPos
  <2> QED
    BY <1>1, <1>3, <2>1, AnswerFacts
<1>4. CASE Count > 0 /\ playbackMode = "Sequential"
  <2>1. a \in Answer(IF currentPos + steps < Count THEN currentPos + steps ELSE -1)
    BY <1>1, <1>4 DEF nextItemPos
  <2>2. (IF currentPos + steps < Count THEN currentPos + steps ELSE -1) \in -1 .. Count - 1
    BY <1>1
  <2> QED
    BY <1>1, <1>4, <2>1, <2>2, AnswerFacts
<1>5. CASE Count > 0 /\ playbackMode = "Loop"
  <2>1. a \in Answer((currentPos + steps) % Count)
    BY <1>1, <1>5 DEF nextItemPos
  <2>2. (currentPos + steps) % Count \in -1 .. Count - 1
    BY <1>1, <1>5
  <2> QED
    BY <1>1, <1>5, <2>1, <2>2, AnswerFacts
<1>6. CASE Count > 0 /\ playbackMode = "Random"
  <2>1. PICK s \in Seq(Position) : s = Started.positions
    BY <1>6, StartedFacts
  <2>2. PICK offset \in 0 .. Len(s) - 1 : offset = Started.offset
    BY <1>6, <2>1, StartedFacts
  <2>3. a \in Entry(History(s \o Open(offset + steps + 1 - Len(s)), offset), offset + steps)
    <3>1. \A l : History(l, offset).offset = offset
      BY DEF History
    <3> QED
      BY <1>1, <1>6, <2>1, <2>2, <3>1 DEF nextItemPos
  <2>5. /\ a.pos \in 0 .. Count - 1
        /\ a.history.positions \in Seq(Position)
        /\ a.history.offset \in 0 .. Len(a.history.positions) - 1
        /\ a.history.offset + steps \in 0 .. Len(a.history.positions) - 1
        /\ a.history.positions[a.history.offset + steps + 1] = a.pos
    BY <1>1, <2>3, Ahead
  <2>6. a.pos \in -1 .. Count - 1 /\ a.history.offset \in Int
    <3>1. /\ a.pos \in Int /\ a.pos >= 0 /\ a.pos <= Count - 1
          /\ a.history.offset \in Int
      BY <2>5
    <3> QED
      BY <1>1, <3>1
  <2> QED
    BY <1>6, <2>5, <2>6 DEF Leads
<1> QED
  BY <1>1, <1>2, <1>3, <1>4, <1>5, <1>6

LEMMA PreviousAnswers ==
    ASSUME ListInv, ~fault, NEW steps \in Nat \ {0}, NEW a \in previousItemPos(steps)
    PROVE  Leads(a, -steps)
<1>1. /\ ListTypeOK /\ Count \in Nat /\ currentPos \in -1 .. Count - 1
      /\ playbackMode \in {"CurrentItemOnce", "CurrentItemInLoop", "Sequential",
                           "Loop", "Random"}
  BY PositionFacts, NavigatorAssumption DEF ListInv, ListTypeOK, CurrentIsItem
<1>2. CASE Count = 0 \/ playbackMode = "CurrentItemOnce"
  <2>1. a \in Answer(-1)
    BY <1>1, <1>2 DEF previousItemPos
  <2> QED
    BY <1>1, <1>2, <2>1, AnswerFacts
<1>3. CASE Count > 0 /\ playbackMode = "CurrentItemInLoop"
  <2>1. a \in Answer(currentPos)
    BY <1>1, <1>3 DEF previousItemPos
  <2> QED
    BY <1>1, <1>3, <2>1, AnswerFacts
<1>4. CASE Count > 0 /\ playbackMode = "Sequential"
  <2> DEFINE from == IF currentPos = -1 THEN Count ELSE currentPos
  <2>1. a \in Answer(IF from >= steps THEN from - steps ELSE -1)
    BY <1>1, <1>4 DEF previousItemPos
  <2>2. (IF from >= steps THEN from - steps ELSE -1) \in -1 .. Count - 1
    BY <1>1
  <2> QED
    BY <1>1, <1>4, <2>1, <2>2, AnswerFacts
<1>5. CASE Count > 0 /\ playbackMode = "Loop"
  <2>1. a \in Answer((currentPos - steps) % Count)
    BY <1>1, <1>5 DEF previousItemPos
  <2>2. (currentPos - steps) % Count \in -1 .. Count - 1
    BY <1>1, <1>5
  <2> QED
    BY <1>1, <1>5, <2>1, <2>2, AnswerFacts
<1>6. CASE Count > 0 /\ playbackMode = "Random"
  <2>1. PICK s \in Seq(Position) : s = Started.positions
    BY <1>6, StartedFacts
  <2>2. PICK offset \in 0 .. Len(s) - 1 : offset = Started.offset
    BY <1>6, <2>1, StartedFacts
  <2>3. PICK o : o = IF steps - offset > 0 THEN steps ELSE offset
    OBVIOUS
  <2>4. a \in Entry(History(Open(steps - offset) \o s, o), o - steps)
    <3>1. \A l : History(l, o).offset = o
      BY DEF History
    <3> QED
      BY <1>1, <1>6, <2>1, <2>2, <2>3, <3>1 DEF previousItemPos
  <2>5. /\ a.pos \in 0 .. Count - 1
        /\ a.history.positions \in Seq(Position)
        /\ a.history.offset \in 0 .. Len(a.history.positions) - 1
        /\ a.history.offset + (-steps) \in 0 .. Len(a.history.positions) - 1
        /\ a.history.positions[a.history.offset + (-steps) + 1] = a.pos
    BY <1>1, <2>3, <2>4, Behind
  <2>6. a.pos \in -1 .. Count - 1 /\ a.history.offset \in Int
    <3>1. /\ a.pos \in Int /\ a.pos >= 0 /\ a.pos <= Count - 1
          /\ a.history.offset \in Int
      BY <2>5
    <3> QED
      BY <1>1, <3>1
  <2> QED
    BY <1>6, <2>5, <2>6 DEF Leads
<1> QED
  BY <1>1, <1>2, <1>3, <1>4, <1>5, <1>6

-----------------------------------------------------------------------------
(* jump(), and what it emits.                                              *)

HasNoCopy(tasks) ==
    \A k \in 1 .. Len(tasks) :
        tasks[k].do \in {"activated", "update"} => tasks[k].copy = <<>>

HasItem(tasks) ==
    \E k \in 1 .. Len(tasks) : tasks[k].do \in {"activated", "update"}

LEMMA TaskTypes ==
    /\ \A p \in Position : IndexChanged(p) \in NavTask
    /\ Activated \in NavTask
    /\ \A m \in Media \cup {NoContent} : ActivatedCopy(m) \in NavTask
    /\ \A m \in Media \cup {NoContent} : Update(<<m>>) \in NavTask
    /\ Update(<<>>) \in NavTask
  BY DEF IndexChanged, Activated, ActivatedCopy, Update, NavTask

LEMMA SignalsFacts ==
    ASSUME NEW pos \in Position, NEW old
    PROVE  /\ Signals(pos, old) \in Seq(NavTask)
           /\ HasNoCopy(Signals(pos, old)) /\ HasItem(Signals(pos, old))
<1>1. IndexChanged(pos) \in NavTask /\ Activated \in NavTask
  BY TaskTypes
<1>2. /\ IndexChanged(pos).do = "currentIndexChanged"
      /\ Activated.do = "activated" /\ Activated.copy = <<>>
  BY DEF IndexChanged, Activated
<1>3. CASE pos # old
  <2>4. Signals(pos, old) = <<IndexChanged(pos), Activated>>
    BY <1>3 DEF Signals
  <2> QED
    BY <1>1, <1>2, <2>4 DEF HasNoCopy, HasItem
<1>4. CASE pos = old
  <2>1. Signals(pos, old) = <<Activated>>
    BY <1>4 DEF Signals
  <2> QED
    BY <1>1, <1>2, <2>1 DEF HasNoCopy, HasItem
<1> QED
  BY <1>3, <1>4

LEMMA WiderSeq ==
    ASSUME NEW S, NEW T, S \subseteq T
    PROVE  Seq(S) \subseteq Seq(T)
  OBVIOUS

LEMMA ConcatTasks ==
    ASSUME NEW T, NEW s \in Seq(T), NEW t \in Seq(T)
    PROVE  /\ s \o t \in Seq(T)
           /\ HasNoCopy(s) /\ HasNoCopy(t) => HasNoCopy(s \o t)
           /\ HasItem(s) => HasItem(s \o t)
<1> DEFINE l == s \o t
<1>1. /\ l \in Seq(T) /\ Len(l) = Len(s) + Len(t)
      /\ \A k \in 1 .. Len(s) + Len(t) :
            l[k] = IF k <= Len(s) THEN s[k] ELSE t[k - Len(s)]
  BY ConcatProperties
<1> HIDE DEF l
<1>2. HasNoCopy(s) /\ HasNoCopy(t) => HasNoCopy(l)
  <2> SUFFICES ASSUME HasNoCopy(s), HasNoCopy(t), NEW k \in 1 .. Len(s) + Len(t),
                      l[k].do \in {"activated", "update"}
               PROVE  l[k].copy = <<>>
    BY <1>1 DEF HasNoCopy
  <2>1. CASE k <= Len(s)
    <3>1. l[k] = s[k] /\ k \in 1 .. Len(s)
      BY <1>1, <2>1
    <3> QED
      BY <3>1 DEF HasNoCopy
  <2>2. CASE k > Len(s)
    <3>1. l[k] = t[k - Len(s)] /\ k - Len(s) \in 1 .. Len(t)
      BY <1>1, <2>2
    <3> QED
      BY <3>1 DEF HasNoCopy
  <2> QED
    BY <2>1, <2>2
<1>3. HasItem(s) => HasItem(l)
  BY <1>1 DEF HasItem
<1> QED
  BY <1>1, <1>2, <1>3 DEF l

LEMMA JumpStep ==
    ASSUME ListTypeOK,
           NEW list \in Seq(Media), Len(list) <= MaxItems, NEW p \in Int, NEW old,
           NEW positions \in Seq(Position), NEW offset \in Int,
           playbackMode = "Random" => offset \in 0 .. Len(positions) - 1,
           NEW T, NavTask \subseteq T, NEW rest \in Seq(T),
           Jump(p, list, old, History(positions, offset), rest)
    PROVE  /\ currentPos' = PositionIn(p, list) /\ currentPos' \in -1 .. Len(list) - 1
           /\ currentPos' \in Position
           /\ currentItem' = IF currentPos' \in 0 .. Len(list) - 1
                             THEN list[currentPos' + 1] ELSE NoContent
           /\ currentItem' \in Media \cup {NoContent}
           /\ randomModePositions' \in Seq(Position) /\ randomPositionsOffset' \in Int
           /\ playbackMode = "Random" =>
                 randomPositionsOffset' \in 0 .. Len(randomModePositions') - 1
           /\ playbackMode # "Random" =>
                 randomModePositions' = positions /\ randomPositionsOffset' = offset
           /\ fault' = fault
           /\ agenda' \in Seq(T) /\ HasItem(agenda')
           /\ HasNoCopy(rest) => HasNoCopy(agenda')
           /\ inSlot' = FALSE /\ UNCHANGED <<heardMedia, heardIndex>>
<1> DEFINE pos == PositionIn(p, list)
<1>1. /\ pos \in -1 .. Len(list) - 1 /\ Len(list) \in Nat /\ MaxItems \in Nat
      /\ pos \in Position
  BY NavigatorAssumption DEF PositionIn, Position
<1>2. History(positions, offset).positions = positions /\ History(positions, offset).offset = offset
  BY DEF History
<1>3. ~(playbackMode = "Random" /\ offset + 1 \notin DOMAIN positions)
  OBVIOUS
<1>4. /\ currentPos' = pos
      /\ currentItem' = IF pos \in 0 .. Len(list) - 1 THEN list[pos + 1] ELSE NoContent
      /\ IF playbackMode = "Random" /\ positions[offset + 1] # pos
         THEN randomModePositions' = <<pos>> /\ randomPositionsOffset' = 0
         ELSE randomModePositions' = positions /\ randomPositionsOffset' = offset
      /\ Emit(Signals(pos, old), rest)
      /\ fault' = fault
  BY <1>2, <1>3 DEF Jump
<1>5. /\ agenda' = Signals(pos, old) \o rest
      /\ inSlot' = FALSE /\ UNCHANGED <<heardMedia, heardIndex>>
  BY <1>4 DEF Emit
<1>6. PICK s \in Seq(T) : s = Signals(pos, old) /\ HasNoCopy(s) /\ HasItem(s)
  BY <1>1, SignalsFacts, WiderSeq
<1>7. /\ agenda' \in Seq(T) /\ HasItem(agenda')
      /\ HasNoCopy(rest) => HasNoCopy(agenda')
  BY <1>5, <1>6, ConcatTasks
<1>8. currentItem' \in Media \cup {NoContent}
  BY <1>1, <1>4
<1>9. <<pos>> \in Seq(Position) /\ Len(<<pos>>) = 1
  BY <1>1
<1>10. /\ randomModePositions' \in Seq(Position) /\ randomPositionsOffset' \in Int
       /\ playbackMode = "Random" =>
             randomPositionsOffset' \in 0 .. Len(randomModePositions') - 1
       /\ playbackMode # "Random" =>
             randomModePositions' = positions /\ randomPositionsOffset' = offset
  <2> HIDE DEF pos
  <2>1. CASE playbackMode = "Random" /\ positions[offset + 1] # pos
    <3>1. randomModePositions' = <<pos>> /\ randomPositionsOffset' = 0
      BY <1>4, <2>1
    <3>2. PICK q \in Seq(Position) : q = <<pos>> /\ Len(q) = 1
      BY <1>9
    <3>3. randomModePositions' = q
      BY <3>1, <3>2
    <3> QED
      BY <2>1, <3>1, <3>2, <3>3
  <2>2. CASE ~(playbackMode = "Random" /\ positions[offset + 1] # pos)
    BY <1>4, <2>2
  <2> QED
    BY <2>1, <2>2
<1> QED
  BY <1>1, <1>4, <1>5, <1>7, <1>8, <1>10

-----------------------------------------------------------------------------
(* The calls.                                                              *)

\* While a call may be made, no copy is waiting to be heard.
LEMMA NoCopyWaits ==
    ASSUME NEW T, Work(T), CopyIsCurrent, MayCall
    PROVE  HasNoCopy(agenda)
  BY DEF Work, CopyIsCurrent, MayCall, HasNoCopy

LEMMA EmptyPromise == <<>> \in Seq(Promise)
  OBVIOUS

\* The history where it stands.
LEMMA HistoryNow ==
    ASSUME ListInv, ~fault
    PROVE  /\ randomModePositions \in Seq(Position) /\ randomPositionsOffset \in Int
           /\ IF playbackMode = "Random"
              THEN randomPositionsOffset \in 0 .. Len(randomModePositions) - 1
              ELSE randomPositionsOffset = -1 /\ randomModePositions = <<>>
           /\ ThisHistory = History(randomModePositions, randomPositionsOffset)
  BY DEF ListInv, ListTypeOK, HistoryShape, ThisHistory

LEMMA JumpKeeps ==
    ASSUME NEW T, NavInv(T), ~fault, NEW rest \in Seq(T),
           NEW list \in Seq(Media), Len(list) <= MaxItems, NEW p \in Int, NEW old,
           NEW positions \in Seq(Position), NEW offset \in Int,
           IF playbackMode = "Random" THEN offset \in 0 .. Len(positions) - 1
                                      ELSE offset = -1 /\ positions = <<>>,
           Jump(p, list, old, History(positions, offset), rest),
           resources' = list, playbackMode' = playbackMode,
           promise' \in Seq(Promise)
    PROVE  /\ NavInv(T)' /\ fault' = fault
           /\ currentPos' = PositionIn(p, list)
           /\ HasNoCopy(rest) => HearInv'
<1>1. ListTypeOK /\ NavTask \subseteq T /\ playbackMode \in Modes
  BY DEF NavInv, ListInv, Work, ListTypeOK
<1>2. /\ currentPos' = PositionIn(p, list) /\ currentPos' \in -1 .. Len(list) - 1
      /\ currentPos' \in Position
      /\ currentItem' = IF currentPos' \in 0 .. Len(list) - 1
                        THEN list[currentPos' + 1] ELSE NoContent
      /\ currentItem' \in Media \cup {NoContent}
      /\ randomModePositions' \in Seq(Position) /\ randomPositionsOffset' \in Int
      /\ playbackMode = "Random" =>
            randomPositionsOffset' \in 0 .. Len(randomModePositions') - 1
      /\ playbackMode # "Random" =>
            randomModePositions' = positions /\ randomPositionsOffset' = offset
      /\ fault' = fault
      /\ agenda' \in Seq(T) /\ HasItem(agenda')
      /\ HasNoCopy(rest) => HasNoCopy(agenda')
      /\ inSlot' = FALSE /\ UNCHANGED <<heardMedia, heardIndex>>
  BY <1>1, JumpStep
<1>3. ListTypeOK'
  BY <1>1, <1>2 DEF ListTypeOK, Count
<1>4. CurrentIsItem'
  BY <1>2 DEF CurrentIsItem, itemAt, Count
<1>5. HistoryShape'
  BY <1>2 DEF HistoryShape
<1>6. Work(T)'
  BY <1>2 DEF NavInv, Work
<1>7. ASSUME HasNoCopy(rest) PROVE HearInv'
  BY <1>2, <1>7 DEF HearInv, CopyIsCurrent, HearsYet, HasNoCopy, HasItem
<1> QED
  BY <1>2, <1>3, <1>4, <1>5, <1>6, <1>7 DEF NavInv, ListInv

\* A call jumps.
LEMMA CallJumps ==
    ASSUME NEW T, NavInv(T), MayCall,
           NEW list \in Seq(Media), Len(list) <= MaxItems, NEW p \in Int, NEW old,
           Jump(p, list, old, ThisHistory, agenda),
           resources' = list, playbackMode' = playbackMode, promise' = <<>>
    PROVE  NavInv(T)' /\ fault' = fault /\ (HearInv => HearInv')
<1>1. ListInv /\ Work(T) /\ agenda \in Seq(T) /\ ~fault /\ promise' \in Seq(Promise)
  BY EmptyPromise DEF NavInv, Work, MayCall
<1>2. NavInv(T)' /\ fault' = fault /\ (HasNoCopy(agenda) => HearInv')
  BY <1>1, HistoryNow, JumpKeeps
<1> QED
  BY <1>1, <1>2, NoCopyWaits DEF HearInv

LEMMA FaultKeeps ==
    ASSUME NEW T, NavInv(T),
           fault' = TRUE, promise' \in Seq(Promise),
           UNCHANGED <<resources, playbackMode, currentPos, currentItem,
                       randomModePositions, randomPositionsOffset, listeners>>
    PROVE  NavInv(T)' /\ (HearInv => HearInv')
<1>1. ListTypeOK'
  BY DEF NavInv, ListInv, Work, ListTypeOK, listeners, Count
<1>2. CurrentIsItem' /\ HistoryShape'
  BY DEF NavInv, ListInv, Work, CurrentIsItem, HistoryShape, itemAt, Count
<1>3. HearInv => HearInv'
  BY DEF HearInv, CopyIsCurrent, HearsYet, listeners
<1> QED
  BY <1>1, <1>2, <1>3 DEF NavInv, ListInv, Work, listeners

LEMMA KeptType ==
    ASSUME promise \in Seq(Promise), NEW way
    PROVE  Kept(way) \in Seq(Promise)
<1>1. CASE promise # <<>> /\ promise[1].way = way /\ promise[1].left > 0
  <2>1. PICK q \in Promise : q = promise[1]
    BY <1>1
  <2>2. [q EXCEPT !.left = @ - 1] \in Promise
    BY <1>1, <2>1 DEF Promise
  <2>3. Kept(way) = <<[q EXCEPT !.left = @ - 1]>>
    BY <1>1, <2>1 DEF Kept
  <2>4. PICK r \in Promise : r = [q EXCEPT !.left = @ - 1]
    BY <2>2
  <2>5. <<r>> \in Seq(Promise)
    OBVIOUS
  <2> QED
    BY <2>3, <2>4, <2>5
<1>2. CASE ~(promise # <<>> /\ promise[1].way = way /\ promise[1].left > 0)
  <2>1. Kept(way) = <<>>
    BY <1>2 DEF Kept
  <2> QED
    BY <2>1
<1> QED
  BY <1>1, <1>2

LEMMA MoveStep ==
    ASSUME NEW T, NavInv(T), ~fault, NEW rest \in Seq(T),
           NEW answers, NEW by \in {1, -1},
           \A a \in answers : Leads(a, by),
           Move(answers, by, rest),
           UNCHANGED <<resources, playbackMode>>, promise' \in Seq(Promise)
    PROVE  /\ NavInv(T)' /\ (HearInv /\ HasNoCopy(rest) => HearInv')
           /\ Count > 0 \/ playbackMode # "Random" =>
                 ~fault' /\ \E a \in answers : currentPos' = a.pos
<1>1. /\ ListTypeOK /\ resources \in Seq(Media) /\ Len(resources) <= MaxItems
      /\ currentPos \in Position
      /\ randomModePositions \in Seq(Position) /\ randomPositionsOffset \in Int
      /\ Count = Len(resources) /\ Count \in Nat
  BY PositionFacts DEF NavInv, ListInv, Work, ListTypeOK, Count
<1>2. PICK a \in answers :
          Jump(a.pos, resources, currentPos,
               History(a.history.positions,
                       a.history.offset + (IF playbackMode = "Random" THEN by ELSE 0)),
               rest)
  BY DEF Move
<1>3. PICK positions \in Seq(Position) : positions = a.history.positions
  BY DEF Leads
<1>4. PICK offset \in Int :
          offset = a.history.offset + (IF playbackMode = "Random" THEN by ELSE 0)
  BY DEF Leads
<1>5. PICK p \in -1 .. Count - 1 : p = a.pos
  BY DEF Leads
<1>6. Jump(p, resources, currentPos, History(positions, offset), rest)
  BY <1>2, <1>3, <1>4, <1>5
<1>7. p \in Int /\ PositionIn(p, resources) = p
  BY <1>1, <1>5 DEF PositionIn
<1>8. CASE IF playbackMode = "Random" THEN offset \in 0 .. Len(positions) - 1
                                      ELSE offset = -1 /\ positions = <<>>
  <2>1. /\ NavInv(T)' /\ fault' = fault /\ currentPos' = p
        /\ HasNoCopy(rest) => HearInv'
    BY <1>1, <1>6, <1>7, <1>8, JumpKeeps
  <2> QED
    BY <1>1, <1>5, <2>1
<1>9. CASE playbackMode = "Random" /\ Count > 0
  <2>1. offset \in 0 .. Len(positions) - 1
    BY <1>3, <1>4, <1>9 DEF Leads
  <2> QED
    BY <1>8, <1>9, <2>1
<1>10. CASE playbackMode # "Random"
  <2>1. /\ a.history.positions = randomModePositions
        /\ a.history.offset = randomPositionsOffset
    BY <1>10 DEF Leads
  <2>2. randomPositionsOffset = -1 /\ randomModePositions = <<>>
    BY <1>1, <1>10 DEF NavInv, ListInv, Work, HistoryShape
  <2>3. offset = -1 /\ positions = <<>>
    BY <1>3, <1>4, <1>10, <2>1, <2>2
  <2> QED
    BY <1>8, <1>10, <2>3
<1>11. CASE playbackMode = "Random" /\ Count = 0 /\ offset \notin 0 .. Len(positions) - 1
  <2>1. /\ a.history.positions = randomModePositions
        /\ a.history.offset = randomPositionsOffset
    BY <1>11 DEF Leads
  <2>2. offset + 1 \notin DOMAIN positions
    BY <1>11
  <2>3. /\ History(positions, offset).positions = positions
        /\ History(positions, offset).offset = offset
    BY DEF History
  <2>4. /\ fault' = TRUE
        /\ UNCHANGED <<currentPos, currentItem, randomModePositions,
                       randomPositionsOffset, listeners>>
    BY <1>6, <1>11, <2>2, <2>3 DEF Jump
  <2>5. NavInv(T)' /\ (HearInv => HearInv')
    BY <2>4, FaultKeeps
  <2> QED
    BY <1>1, <1>11, <2>5
<1> QED
  BY <1>1, <1>8, <1>9, <1>10, <1>11

LEMMA NextStep ==
    ASSUME NEW T, NavInv(T), next
    PROVE  /\ NavInv(T)' /\ (HearInv => HearInv')
           /\ ~EmptyRandom => ~fault' /\ \E a \in nextItemPos(1) : currentPos' = a.pos
<1>1. /\ MayCall /\ ~fault /\ promise \in Seq(Promise)
      /\ ListInv /\ Work(T) /\ agenda \in Seq(T)
  BY DEF next, MayCall, NavInv, ListInv, Work, ListTypeOK
<1>2. /\ Move(nextItemPos(1), 1, agenda) /\ UNCHANGED <<resources, playbackMode>>
      /\ promise' \in Seq(Promise)
      /\ EmptyRandom \/ Count > 0 \/ playbackMode # "Random"
  BY <1>1, KeptType DEF next
<1>3. \A a \in nextItemPos(1) : Leads(a, 1)
  BY <1>1, NextAnswers
<1> QED
  BY <1>1, <1>2, <1>3, MoveStep, NoCopyWaits DEF HearInv

LEMMA PreviousStep ==
    ASSUME NEW T, NavInv(T), previous
    PROVE  /\ NavInv(T)' /\ (HearInv => HearInv')
           /\ ~EmptyRandom => ~fault' /\ \E a \in previousItemPos(1) : currentPos' = a.pos
<1>1. /\ MayCall /\ ~fault /\ promise \in Seq(Promise)
      /\ ListInv /\ Work(T) /\ agenda \in Seq(T)
  BY DEF previous, MayCall, NavInv, ListInv, Work, ListTypeOK
<1>2. /\ Move(previousItemPos(1), -1, agenda) /\ UNCHANGED <<resources, playbackMode>>
      /\ promise' \in Seq(Promise)
      /\ EmptyRandom \/ Count > 0 \/ playbackMode # "Random"
  BY <1>1, KeptType DEF previous
<1>3. \A a \in previousItemPos(1) : Leads(a, -1)
  BY <1>1, PreviousAnswers
<1> QED
  BY <1>1, <1>2, <1>3, MoveStep, NoCopyWaits DEF HearInv

LEMMA SetCurrentIndexStep ==
    ASSUME NEW T, NavInv(T), NEW p \in Position \cup {MaxItems}, setCurrentIndex(p)
    PROVE  NavInv(T)' /\ fault' = fault /\ (HearInv => HearInv')
<1>1. /\ MayCall /\ Jump(p, resources, currentPos, ThisHistory, agenda)
      /\ promise' = <<>> /\ UNCHANGED <<resources, playbackMode>>
  BY DEF setCurrentIndex
<1>2. /\ resources \in Seq(Media) /\ Len(resources) <= MaxItems /\ p \in Int
  BY PositionFacts DEF NavInv, ListInv, Work, ListTypeOK, Count, Position
<1> QED
  BY <1>1, <1>2, CallJumps

LEMMA AskStep ==
    ASSUME NEW T, NavInv(T), NEW answers, NEW steps \in 1 .. MaxSteps, NEW move,
           NEW way \in {"next", "previous"},
           \A a \in answers : Leads(a, move),
           Ask(answers, steps, way)
    PROVE  NavInv(T)' /\ fault' = fault /\ (HearInv => HearInv')
<1>1. /\ ListTypeOK /\ ~fault /\ MaxSteps \in Nat
      /\ -1 .. Count - 1 \subseteq Position
      /\ Count \in Nat
  BY NavigatorAssumption, PositionFacts DEF NavInv, ListInv, Work, Ask, MayCall
<1>2. PICK a \in answers :
          /\ randomModePositions' = a.history.positions
          /\ randomPositionsOffset' = a.history.offset
          /\ promise' = <<[at |-> a.pos, left |-> steps, way |-> way]>>
  BY DEF Ask
<1>3. UNCHANGED <<resources, playbackMode, currentPos, currentItem, fault, listeners>>
  BY DEF Ask
<1>4. PICK q \in Promise : q = [at |-> a.pos, left |-> steps, way |-> way]
  <2>1. a.pos \in Position /\ steps \in Nat
    BY <1>1 DEF Leads
  <2> QED
    BY <2>1 DEF Promise
<1>5. promise' \in Seq(Promise)
  <2>1. <<q>> \in Seq(Promise)
    OBVIOUS
  <2> QED
    BY <1>2, <1>4, <2>1
<1>6. randomModePositions' \in Seq(Position) /\ randomPositionsOffset' \in Int
  BY <1>2 DEF Leads
<1>7. ListTypeOK'
  BY <1>1, <1>3, <1>5, <1>6 DEF ListTypeOK, listeners, Count
<1>8. CurrentIsItem'
  BY <1>3 DEF NavInv, ListInv, Work, CurrentIsItem, itemAt, Count
<1>9. HistoryShape'
  <2>1. CASE playbackMode = "Random" /\ Count > 0
    BY <1>2, <1>3, <2>1 DEF Leads, HistoryShape
  <2>2. CASE playbackMode # "Random" \/ Count = 0
    <3>1. randomModePositions' = randomModePositions
          /\ randomPositionsOffset' = randomPositionsOffset
      BY <1>2, <2>2 DEF Leads
    <3> QED
      BY <1>3, <3>1 DEF NavInv, ListInv, Work, HistoryShape
  <2> QED
    BY <1>1, <2>1, <2>2
<1>10. HearInv => HearInv'
  BY <1>3 DEF HearInv, CopyIsCurrent, HearsYet, listeners
<1> QED
  BY <1>3, <1>7, <1>8, <1>9, <1>10 DEF NavInv, ListInv, Work, listeners

LEMMA SetPlaybackModeStep ==
    ASSUME NEW T, NavInv(T), NEW mode \in Modes, setPlaybackMode(mode)
    PROVE  NavInv(T)' /\ fault' = fault /\ (HearInv => HearInv')
<1>1. /\ ListTypeOK /\ ~fault /\ currentPos \in Position
      /\ randomModePositions \in Seq(Position) /\ randomPositionsOffset \in Int
  BY DEF NavInv, ListInv, Work, ListTypeOK, setPlaybackMode, MayCall
<1>2. /\ playbackMode' = mode /\ mode # playbackMode /\ promise' = <<>>
      /\ UNCHANGED <<resources, currentPos, currentItem, fault, listeners>>
  BY DEF setPlaybackMode
<1>3. CASE mode = "Random"
  <2>1. randomPositionsOffset' = 0 /\ randomModePositions' = Append(randomModePositions, currentPos)
    BY <1>3 DEF setPlaybackMode
  <2>2. Append(randomModePositions, currentPos) \in Seq(Position)
        /\ Len(Append(randomModePositions, currentPos)) > 0
    BY <1>1
  <2>3. ListTypeOK'
    BY <1>1, <1>2, <2>1, <2>2 DEF ListTypeOK, listeners, Count
  <2>4. HistoryShape'
    BY <1>2, <1>3, <2>1, <2>2 DEF HistoryShape
  <2> QED
    BY <1>2, <2>3, <2>4
       DEF NavInv, ListInv, Work, CurrentIsItem, itemAt, Count, HearInv, CopyIsCurrent, HearsYet, listeners
<1>4. CASE mode # "Random"
  <2>1. randomPositionsOffset' = -1 /\ randomModePositions' = <<>>
    <3>1. CASE playbackMode = "Random"
      BY <1>4, <3>1 DEF setPlaybackMode
    <3>2. CASE playbackMode # "Random"
      BY <1>1, <1>4, <3>2 DEF setPlaybackMode, NavInv, ListInv, Work, HistoryShape
    <3> QED
      BY <3>1, <3>2
  <2>2. <<>> \in Seq(Position)
    OBVIOUS
  <2>3. ListTypeOK'
    BY <1>1, <1>2, <2>1, <2>2 DEF ListTypeOK, listeners, Count
  <2>4. HistoryShape'
    BY <1>2, <1>4, <2>1 DEF HistoryShape
  <2> QED
    BY <1>2, <2>3, <2>4
       DEF NavInv, ListInv, Work, CurrentIsItem, itemAt, Count, HearInv, CopyIsCurrent, HearsYet, listeners
<1> QED
  BY <1>3, <1>4

-----------------------------------------------------------------------------
(* Changes of the list.                                                    *)

\* The list is cut before and after a place; what is before it stays.
LEMMA Spliced ==
    ASSUME NEW s \in Seq(Media), NEW items \in Seq(Media),
           NEW pos \in 0 .. Len(s), NEW from \in pos + 1 .. Len(s) + 1
    PROVE  LET l == SubSeq(s, 1, pos) \o items \o SubSeq(s, from, Len(s))
           IN  /\ l \in Seq(Media)
               /\ Len(l) = pos + Len(items) + (Len(s) + 1 - from)
               /\ \A k \in 1 .. pos : l[k] = s[k]
<1>1. PICK a \in Seq(Media) : /\ a = SubSeq(s, 1, pos) /\ Len(a) = pos
                              /\ \A k \in 1 .. pos : a[k] = s[k]
  <2>1. /\ SubSeq(s, 1, pos) \in Seq(Media) /\ Len(SubSeq(s, 1, pos)) = pos
        /\ \A k \in 1 .. pos : SubSeq(s, 1, pos)[k] = s[k]
    OBVIOUS
  <2> QED
    BY <2>1
<1>2. PICK b \in Seq(Media) : b = SubSeq(s, from, Len(s)) /\ Len(b) = Len(s) + 1 - from
  <2>1. /\ SubSeq(s, from, Len(s)) \in Seq(Media)
        /\ Len(SubSeq(s, from, Len(s))) = Len(s) + 1 - from
    OBVIOUS
  <2> QED
    BY <2>1
<1>3. PICK c \in Seq(Media) : /\ c = a \o items /\ Len(c) = pos + Len(items)
                              /\ \A k \in 1 .. pos : c[k] = s[k]
  <2>1. /\ a \o items \in Seq(Media) /\ Len(a \o items) = pos + Len(items)
        /\ \A k \in 1 .. Len(a) + Len(items) :
              (a \o items)[k] = IF k <= Len(a) THEN a[k] ELSE items[k - Len(a)]
    BY <1>1, ConcatProperties
  <2>2. Len(items) \in Nat
    OBVIOUS
  <2>3. ASSUME NEW k \in 1 .. pos PROVE (a \o items)[k] = s[k]
    BY <1>1, <2>1, <2>2
  <2> QED
    BY <2>1, <2>3
<1>4. PICK l \in Seq(Media) : /\ l = c \o b /\ Len(l) = Len(c) + Len(b)
                              /\ \A k \in 1 .. pos : l[k] = s[k]
  <2>1. /\ c \o b \in Seq(Media) /\ Len(c \o b) = Len(c) + Len(b)
        /\ \A k \in 1 .. Len(c) + Len(b) :
              (c \o b)[k] = IF k <= Len(c) THEN c[k] ELSE b[k - Len(c)]
    BY ConcatProperties
  <2>2. Len(items) \in Nat /\ Len(b) \in Nat
    OBVIOUS
  <2>3. ASSUME NEW k \in 1 .. pos PROVE (c \o b)[k] = s[k]
    BY <1>3, <2>1, <2>2
  <2> QED
    BY <2>1, <2>3
<1>5. l = SubSeq(s, 1, pos) \o items \o SubSeq(s, from, Len(s))
  BY <1>1, <1>2, <1>3, <1>4
<1> QED
  BY <1>2, <1>3, <1>4, <1>5

LEMMA InsertedList ==
    ASSUME NEW s \in Seq(Media), NEW items \in Seq(Media), NEW pos \in 0 .. Len(s)
    PROVE  \E list \in Seq(Media) :
              /\ list = SubSeq(s, 1, pos) \o items \o SubSeq(s, pos + 1, Len(s))
              /\ Len(list) = Len(s) + Len(items)
              /\ \A k \in 1 .. pos : list[k] = s[k]
<1>1. PICK from \in pos + 1 .. Len(s) + 1 : from = pos + 1
  OBVIOUS
<1> DEFINE list == SubSeq(s, 1, pos) \o items \o SubSeq(s, from, Len(s))
<1>2. /\ list \in Seq(Media) /\ Len(list) = pos + Len(items) + (Len(s) + 1 - from)
      /\ \A k \in 1 .. pos : list[k] = s[k]
  BY Spliced
<1> HIDE DEF list
<1>3. Len(list) = Len(s) + Len(items)
  <2>1. Len(items) \in Nat /\ Len(s) \in Nat
    OBVIOUS
  <2> QED
    BY <1>1, <1>2, <2>1
<1> QED
  BY <1>1, <1>2, <1>3 DEF list

LEMMA RemovedList ==
    ASSUME NEW s \in Seq(Media), NEW end \in 0 .. Len(s) - 1, NEW start \in 0 .. end
    PROVE  \E list \in Seq(Media) :
              /\ list = SubSeq(s, 1, start) \o SubSeq(s, end + 2, Len(s))
              /\ Len(list) = Len(s) - (end + 1 - start)
              /\ \A k \in 1 .. start : list[k] = s[k]
<1>1. PICK from \in start + 1 .. Len(s) + 1 : from = end + 2
  OBVIOUS
<1>2. PICK none \in Seq(Media) : none = <<>>
  <2>1. <<>> \in Seq(Media)
    OBVIOUS
  <2> QED
    BY <2>1
<1>3. PICK a \in Seq(Media) : a = SubSeq(s, 1, start)
  <2>1. SubSeq(s, 1, start) \in Seq(Media)
    OBVIOUS
  <2> QED
    BY <2>1
<1>4. a \o none = a
  BY <1>2, ConcatEmptySeq
<1> DEFINE list == a \o none \o SubSeq(s, from, Len(s))
<1>5. /\ list \in Seq(Media) /\ Len(list) = start + Len(none) + (Len(s) + 1 - from)
      /\ \A k \in 1 .. start : list[k] = s[k]
  <2>1. start \in 0 .. Len(s)
    OBVIOUS
  <2> QED
    BY <1>3, <2>1, Spliced
<1>6. list = SubSeq(s, 1, start) \o SubSeq(s, end + 2, Len(s))
  BY <1>1, <1>3, <1>4
<1> HIDE DEF list
<1>7. Len(list) = Len(s) - (end + 1 - start)
  <2>1. Len(none) = 0 /\ Len(s) \in Nat
    BY <1>2
  <2> QED
    BY <1>1, <1>5, <2>1
<1> QED
  BY <1>5, <1>6, <1>7

\* Nothing is emitted, and the current item stays where it is.
LEMMA SilentKeeps ==
    ASSUME NEW T, NavInv(T), ~fault, Silent,
           NEW list \in Seq(Media), Len(list) <= MaxItems,
           currentPos \in -1 .. Len(list) - 1,
           currentPos >= 0 => list[currentPos + 1] = currentItem,
           resources' = list, playbackMode' = playbackMode, promise' = <<>>
    PROVE  NavInv(T)' /\ fault' = fault /\ (HearInv => HearInv')
<1>1. UNCHANGED <<currentPos, currentItem, randomModePositions,
                  randomPositionsOffset, fault, listeners>>
  BY DEF Silent
<1>2. ListTypeOK'
  BY <1>1 DEF NavInv, ListInv, Work, ListTypeOK, listeners, Count
<1>3. CurrentIsItem'
  <2>1. CASE currentPos >= 0
    BY <1>1, <2>1 DEF NavInv, ListInv, Work, CurrentIsItem, itemAt, Count
  <2>2. CASE currentPos = -1
    BY <1>1, <2>2 DEF NavInv, ListInv, Work, CurrentIsItem, itemAt, Count
  <2> QED
    BY <2>1, <2>2
<1>4. HistoryShape' /\ (HearInv => HearInv')
  BY <1>1 DEF NavInv, ListInv, Work, HistoryShape, HearInv, CopyIsCurrent, HearsYet, listeners
<1> QED
  BY <1>1, <1>2, <1>3, <1>4 DEF NavInv, ListInv, Work, listeners

LEMMA InsertMediaStep ==
    ASSUME NEW T, NavInv(T), NEW pos \in 0 .. Count,
           NEW items \in {<<m>> : m \in Media} \cup (Media \X Media),
           insertMedia(pos, items)
    PROVE  NavInv(T)' /\ fault' = fault /\ (HearInv => HearInv')
<1>1. /\ MayCall /\ ~fault /\ promise' = <<>> /\ playbackMode' = playbackMode
      /\ Count + Len(items) <= MaxItems
      /\ resources \in Seq(Media) /\ Count = Len(resources) /\ Count \in Nat
      /\ currentPos \in -1 .. Count - 1
      /\ currentPos >= 0 => currentItem = resources[currentPos + 1]
  BY PositionFacts DEF insertMedia, MayCall, NavInv, ListInv, Work, ListTypeOK, CurrentIsItem, itemAt, Count
<1>2. items \in Seq(Media)
  <2>1. CASE items \in {<<m>> : m \in Media}
    <3>1. PICK x \in Media : items = <<x>>
      BY <2>1
    <3>2. <<x>> \in Seq(Media)
      OBVIOUS
    <3> QED
      BY <3>1, <3>2
  <2>2. CASE items \in Media \X Media
    <3>1. PICK x \in Media, y \in Media : items = <<x, y>>
      BY <2>2
    <3>2. <<x, y>> \in Seq(Media)
      OBVIOUS
    <3> QED
      BY <3>1, <3>2
  <2> QED
    BY <2>1, <2>2
<1>s. PICK s \in Seq(Media) : s = resources
  BY <1>1
<1>3. PICK at \in 0 .. Len(s) : s = resources /\ at = pos
  BY <1>1, <1>s
<1>4. PICK list \in Seq(Media) :
          /\ list = SubSeq(s, 1, at) \o items \o SubSeq(s, at + 1, Len(s))
          /\ Len(list) = Len(s) + Len(items)
          /\ \A k \in 1 .. at : list[k] = s[k]
  BY <1>2, InsertedList
<1>5. resources' = list /\ MediaInserted(list, at, at + Len(items) - 1)
  BY <1>1, <1>3, <1>4 DEF insertMedia
<1>6. Len(list) <= MaxItems /\ Len(list) \in Nat /\ Len(s) <= Len(list) /\ Len(items) \in Nat
  <2>1. Len(items) \in Nat /\ Len(s) \in Nat /\ Count = Len(s)
    BY <1>1, <1>2, <1>3
  <2>2. Len(s) + Len(items) <= MaxItems
    BY <1>1, <2>1
  <2>3. Len(list) = Len(s) + Len(items)
    BY <1>4
  <2> QED
    BY <2>1, <2>2, <2>3
<1>7. CASE currentPos >= at
  <2>1. PICK p \in Int : p = at + Len(items) - 1 - at + 1
    BY <1>6
  <2>2. Jump(p, list, p, ThisHistory, agenda)
    BY <1>5, <1>7, <2>1 DEF MediaInserted
  <2> QED
    BY <1>1, <1>5, <1>6, <2>2, CallJumps
<1>8. CASE currentPos < at
  <2>1. Silent
    BY <1>1, <1>5, <1>8 DEF MediaInserted
  <2>2. currentPos \in -1 .. Len(list) - 1
    BY <1>1, <1>3, <1>6
  <2>3. currentPos >= 0 => list[currentPos + 1] = currentItem
    <3> SUFFICES ASSUME currentPos >= 0 PROVE list[currentPos + 1] = currentItem
      OBVIOUS
    <3>1. currentPos + 1 \in 1 .. at
      BY <1>1, <1>8
    <3> QED
      BY <1>1, <1>3, <1>4, <3>1
  <2> QED
    BY <1>1, <1>5, <1>6, <2>1, <2>2, <2>3, SilentKeeps
<1> QED
  BY <1>1, <1>7, <1>8

LEMMA RemoveMediaStep ==
    ASSUME NEW T, NavInv(T), NEW end \in 0 .. Count - 1, NEW start \in 0 .. end,
           removeMedia(start, end)
    PROVE  NavInv(T)' /\ fault' = fault /\ (HearInv => HearInv')
<1>1. /\ MayCall /\ ~fault /\ promise' = <<>> /\ playbackMode' = playbackMode
      /\ resources \in Seq(Media) /\ Count = Len(resources) /\ Count \in Nat
      /\ Count <= MaxItems /\ MaxItems \in Nat
      /\ currentPos \in -1 .. Count - 1
      /\ currentPos >= 0 => currentItem = resources[currentPos + 1]
  BY PositionFacts DEF removeMedia, MayCall, NavInv, ListInv, Work, ListTypeOK, CurrentIsItem, itemAt, Count
<1>s. PICK s \in Seq(Media) : s = resources
  BY <1>1
<1>2. PICK last \in 0 .. Len(s) - 1 : s = resources /\ last = end
  BY <1>1, <1>s
<1>3. PICK first \in 0 .. last : first = start
  BY <1>2
<1>4. PICK list \in Seq(Media) :
          /\ list = SubSeq(s, 1, first) \o SubSeq(s, last + 2, Len(s))
          /\ Len(list) = Len(s) - (last + 1 - first)
          /\ \A k \in 1 .. first : list[k] = s[k]
  BY RemovedList
<1>5. resources' = list /\ MediaRemoved(list, first, last)
  BY <1>1, <1>2, <1>3, <1>4 DEF removeMedia
<1>6. Len(list) <= MaxItems /\ Len(list) \in Nat /\ first <= Len(list)
  <2>1. Len(s) \in Nat /\ Len(s) <= MaxItems /\ MaxItems \in Nat
    BY <1>1, <1>2
  <2>2. first \in 0 .. last /\ last \in 0 .. Len(s) - 1
    OBVIOUS
  <2>3. Len(list) = Len(s) - (last + 1 - first)
    BY <1>4
  <2> QED
    BY <2>1, <2>2, <2>3
<1>7. CASE currentPos > last
  <2>1. PICK p \in Int : p = currentPos - last - first + 1
    BY <1>1
  <2>2. Jump(p, list, p, ThisHistory, agenda)
    BY <1>5, <1>7, <2>1 DEF MediaRemoved
  <2> QED
    BY <1>1, <1>5, <1>6, <2>2, CallJumps
<1>8. CASE currentPos <= last /\ currentPos >= first
  <2>1. PICK p \in Int : p = IF first < Len(list) THEN first ELSE Len(list) - 1
    <3>1. (IF first < Len(list) THEN first ELSE Len(list) - 1) \in Int
      BY <1>6
    <3> QED
      BY <3>1
  <2>2. Jump(p, list, p, ThisHistory, agenda)
    BY <1>1, <1>5, <1>8, <2>1 DEF MediaRemoved
  <2> QED
    BY <1>1, <1>5, <1>6, <2>2, CallJumps
<1>9. CASE currentPos < first
  <2>1. Silent
    BY <1>1, <1>5, <1>9 DEF MediaRemoved
  <2>2. currentPos \in -1 .. Len(list) - 1
    BY <1>1, <1>6, <1>9
  <2>3. currentPos >= 0 => list[currentPos + 1] = currentItem
    <3> SUFFICES ASSUME currentPos >= 0 PROVE list[currentPos + 1] = currentItem
      OBVIOUS
    <3>1. currentPos + 1 \in 1 .. first
      BY <1>1, <1>9
    <3> QED
      BY <1>1, <1>2, <1>4, <3>1
  <2> QED
    BY <1>1, <1>5, <1>6, <2>1, <2>2, <2>3, SilentKeeps
<1> QED
  BY <1>1, <1>7, <1>8, <1>9

LEMMA ShuffleStep ==
    ASSUME NEW T, NavInv(T), shuffle
    PROVE  NavInv(T)' /\ fault' = fault /\ (HearInv => HearInv')
<1>1. /\ MayCall /\ ~fault /\ promise' = <<>> /\ playbackMode' = playbackMode
      /\ ListTypeOK /\ Work(T) /\ NavTask \subseteq T /\ agenda \in Seq(T)
      /\ resources \in Seq(Media) /\ Count = Len(resources) /\ Count \in Nat
      /\ Count <= MaxItems /\ MaxItems \in Nat
      /\ currentPos \in -1 .. Count - 1 /\ currentPos \in Position
      /\ currentItem \in Media \cup {NoContent}
  <2>1. ListTypeOK /\ Work(T) /\ NavTask \subseteq T /\ agenda \in Seq(T)
    BY DEF NavInv, ListInv, Work
  <2> QED
    BY <2>1, PositionFacts DEF shuffle, MayCall, NavInv, ListInv, ListTypeOK, CurrentIsItem, Count
<1>2. PICK order \in [1 .. Count -> 1 .. Count] :
          /\ resources' = [k \in 1 .. Count |-> resources[order[k]]]
          /\ MediaChanged(resources')
  BY DEF shuffle
<1>3. PICK list \in Seq(Media) :
          list = [k \in 1 .. Count |-> resources[order[k]]] /\ Len(list) = Count
  <2>1. PICK s \in Seq(Media), n \in Nat : s = resources /\ n = Count /\ n = Len(s)
    BY <1>1
  <2>2. \A k \in 1 .. n : s[order[k]] \in Media
    BY <2>1
  <2> DEFINE l == [k \in 1 .. n |-> s[order[k]]]
  <2>3. l \in Seq(Media)
    BY <2>2, IsASeq
  <2>4. Len(l) = n
    BY <2>3
  <2>5. l = [k \in 1 .. Count |-> resources[order[k]]]
    BY <2>1
  <2> HIDE DEF l
  <2> QED
    BY <2>1, <2>3, <2>4, <2>5
<1>4. resources' = list /\ MediaChanged(list)
  BY <1>2, <1>3
<1>5. CASE currentPos >= 0 /\ list[currentPos + 1] # currentItem
  <2>1. PICK m \in Media : m = list[currentPos + 1]
    BY <1>1, <1>3, <1>5
  <2>2. /\ currentItem' = m /\ Emit(<<ActivatedCopy(m)>>, agenda)
        /\ UNCHANGED <<currentPos, randomModePositions, randomPositionsOffset, fault>>
    BY <1>4, <1>5, <2>1 DEF MediaChanged
  <2>3. /\ agenda' = <<ActivatedCopy(m)>> \o agenda
        /\ inSlot' = FALSE /\ UNCHANGED <<heardMedia, heardIndex>>
    BY <2>2 DEF Emit
  <2>4. PICK t \in NavTask : t = ActivatedCopy(m)
    BY TaskTypes
  <2>5. t.do = "activated" /\ t.copy = <<m>>
    BY <2>4 DEF ActivatedCopy
  <2>6. /\ agenda' \in Seq(T) /\ Len(agenda') = Len(agenda) + 1
        /\ agenda'[1] = t
        /\ \A k \in 2 .. Len(agenda) + 1 : agenda'[k] = agenda[k - 1]
    BY <1>1, <2>3, <2>4
  <2>7. ListTypeOK'
    <3>1. resources' \in Seq(Media) /\ Count' <= MaxItems
      BY <1>1, <1>3, <1>4 DEF Count
    <3>2. currentItem' \in Media \cup {NoContent} /\ promise' \in Seq(Promise)
      BY <1>1, <2>2, EmptyPromise
    <3> QED
      BY <1>1, <2>2, <2>3, <2>6, <3>1, <3>2 DEF ListTypeOK
  <2>8. CurrentIsItem'
    BY <1>1, <1>3, <1>4, <1>5, <2>1, <2>2 DEF CurrentIsItem, itemAt, Count
  <2>9. HistoryShape'
    BY <1>1, <2>2 DEF NavInv, ListInv, Work, HistoryShape
  <2>10. ASSUME HearInv PROVE HearInv'
    <3>1. HasNoCopy(agenda)
      BY <1>1, <2>10, NoCopyWaits DEF HearInv
    <3>2. CopyIsCurrent'
      <4> SUFFICES ASSUME NEW k \in 1 .. Len(agenda) + 1,
                          agenda'[k].do \in {"activated", "update"}, agenda'[k].copy # <<>>
                   PROVE  k = 1 /\ agenda'[k].copy[1] = m
        BY <2>2, <2>3, <2>6 DEF CopyIsCurrent
      <4>1. k = 1
        <5> SUFFICES ASSUME k # 1 PROVE FALSE
          OBVIOUS
        <5>1. k \in 2 .. Len(agenda) + 1 /\ k - 1 \in 1 .. Len(agenda)
          BY <1>1
        <5> QED
          BY <2>6, <3>1, <5>1 DEF HasNoCopy
      <4> QED
        BY <2>5, <2>6, <4>1
    <3>3. HearsYet'
      <4>1. 1 \in 1 .. Len(agenda')
        BY <1>1, <2>6
      <4> QED
        BY <2>5, <2>6, <4>1 DEF HearsYet
    <3> QED
      BY <3>2, <3>3 DEF HearInv
  <2> QED
    BY <1>1, <2>2, <2>6, <2>7, <2>8, <2>9, <2>10 DEF NavInv, ListInv, Work
<1>6. CASE ~(currentPos >= 0 /\ list[currentPos + 1] # currentItem)
  <2>1. Silent
    BY <1>4, <1>6 DEF MediaChanged
  <2> QED
    BY <1>1, <1>3, <1>4, <1>6, <2>1, SilentKeeps
<1> QED
  BY <1>5, <1>6

-----------------------------------------------------------------------------
(* Delivery.                                                               *)

LEMMA DeliverIndexStep ==
    ASSUME NEW T, NavInv(T), DeliverIndex
    PROVE  NavInv(T)' /\ fault' = fault /\ (HearInv => HearInv')
<1>1. /\ ListTypeOK /\ Work(T) /\ agenda \in Seq(T) /\ agenda # <<>>
      /\ agenda[1].do = "currentIndexChanged"
      /\ heardIndex' = agenda[1].pos /\ agenda' = Tail(agenda) /\ inSlot' = TRUE
      /\ UNCHANGED <<navVars, heardMedia, promise>>
  BY DEF DeliverIndex, NavInv, ListInv, Work, ListTypeOK
<1>2. /\ agenda' \in Seq(T) /\ Len(agenda) \in Nat \ {0}
      /\ Len(agenda') = Len(agenda) - 1
      /\ \A k \in 1 .. Len(agenda) - 1 : agenda'[k] = agenda[k + 1]
  BY <1>1
<1>3. agenda[1] \in NavTask
  BY <1>1 DEF Work
<1>4. heardIndex' \in Position
  BY <1>1, <1>3 DEF NavTask
<1>5. NavInv(T)'
  BY <1>1, <1>2, <1>4
     DEF NavInv, ListInv, Work, ListTypeOK, CurrentIsItem, HistoryShape, itemAt, Count, navVars
<1>6. ASSUME HearInv PROVE HearInv'
  <2>1. CopyIsCurrent'
    <3> SUFFICES ASSUME NEW k \in 1 .. Len(agenda) - 1,
                        agenda'[k].do \in {"activated", "update"}, agenda'[k].copy # <<>>
                 PROVE  FALSE
      BY <1>2 DEF CopyIsCurrent
    <3>1. k + 1 \in 1 .. Len(agenda) /\ agenda'[k] = agenda[k + 1] /\ k + 1 # 1
      BY <1>2
    <3> QED
      BY <1>6, <3>1 DEF HearInv, CopyIsCurrent
  <2>2. HearsYet'
    <3>1. CASE heardMedia = currentItem
      BY <1>1, <3>1 DEF HearsYet, navVars
    <3>2. CASE heardMedia # currentItem
      <4>1. PICK k \in 1 .. Len(agenda) : agenda[k].do \in {"activated", "update"}
        BY <1>6, <3>2 DEF HearInv, HearsYet
      <4>2. k # 1
        BY <1>1, <4>1
      <4>3. k - 1 \in 1 .. Len(agenda) - 1 /\ (k - 1) + 1 = k
        BY <1>2, <4>2
      <4>4. agenda'[k - 1] = agenda[k]
        BY <1>2, <4>3
      <4> QED
        BY <1>2, <4>1, <4>3, <4>4 DEF HearsYet
    <3> QED
      BY <3>1, <3>2
  <2> QED
    BY <2>1, <2>2 DEF HearInv
<1> QED
  BY <1>1, <1>5, <1>6 DEF navVars

LEMMA DeliverMediaStep ==
    ASSUME NEW T, NavInv(T), DeliverMedia
    PROVE  /\ NavInv(T)' /\ fault' = fault /\ (HearInv /\ SlotsOnChange = FALSE => HearInv')
           /\ Len(agenda') = Len(agenda) /\ agenda'[1].do = "update"
           /\ \A k \in 2 .. Len(agenda) : agenda'[k] = agenda[k]
<1>1. /\ ListTypeOK /\ Work(T) /\ agenda \in Seq(T) /\ agenda # <<>>
      /\ agenda[1].do = "activated"
      /\ agenda' = <<Update(agenda[1].copy)>> \o Tail(agenda)
      /\ inSlot' = (SlotsOnChange \/ agenda[1].copy = <<>>)
      /\ UNCHANGED <<navVars, heardMedia, heardIndex, promise>>
  BY DEF DeliverMedia, NavInv, ListInv, Work, ListTypeOK
<1>2. agenda[1] \in NavTask
  BY <1>1 DEF Work
<1>3. agenda[1].copy \in {<<>>} \cup {<<m>> : m \in Media \cup {NoContent}}
  BY <1>1, <1>2 DEF NavTask
<1>4. PICK t \in T : t = Update(agenda[1].copy)
  <2>1. CASE agenda[1].copy = <<>>
    BY <1>1, <2>1, TaskTypes DEF Work
  <2>2. CASE agenda[1].copy \in {<<m>> : m \in Media \cup {NoContent}}
    BY <1>1, <2>2, TaskTypes DEF Work
  <2> QED
    BY <1>3, <2>1, <2>2
<1>5. t.do = "update" /\ t.copy = agenda[1].copy
  BY <1>4 DEF Update
<1>6. PICK rest \in Seq(T) :
          /\ rest = Tail(agenda) /\ Len(rest) = Len(agenda) - 1
          /\ \A k \in 1 .. Len(agenda) - 1 : rest[k] = agenda[k + 1]
  <2>1. /\ Tail(agenda) \in Seq(T) /\ Len(Tail(agenda)) = Len(agenda) - 1
        /\ \A k \in 1 .. Len(agenda) - 1 : Tail(agenda)[k] = agenda[k + 1]
    BY <1>1
  <2> QED
    BY <2>1
<1>7. Len(agenda) \in Nat \ {0}
  BY <1>1
<1>8. PICK front \in Seq(T) : front = <<t>> /\ Len(front) = 1 /\ front[1] = t
  <2>1. <<t>> \in Seq(T)
    OBVIOUS
  <2> QED
    BY <2>1
<1>9. /\ agenda' \in Seq(T) /\ Len(agenda') = Len(agenda)
      /\ agenda'[1] = t
      /\ \A k \in 2 .. Len(agenda) : agenda'[k] = agenda[k]
  <2>1. agenda' = front \o rest
    BY <1>1, <1>4, <1>6, <1>8
  <2>2. /\ front \o rest \in Seq(T) /\ Len(front \o rest) = Len(front) + Len(rest)
        /\ \A k \in 1 .. Len(front) + Len(rest) :
              (front \o rest)[k] = IF k <= Len(front) THEN front[k] ELSE rest[k - Len(front)]
    BY ConcatProperties
  <2>3. ASSUME NEW k \in 2 .. Len(agenda) PROVE agenda'[k] = agenda[k]
    <3>1. agenda'[k] = rest[k - 1]
      BY <1>6, <1>7, <1>8, <2>1, <2>2
    <3>2. k - 1 \in 1 .. Len(agenda) - 1 /\ (k - 1) + 1 = k
      BY <1>7
    <3> QED
      BY <1>6, <3>1, <3>2
  <2> QED
    BY <1>6, <1>7, <1>8, <2>1, <2>2, <2>3
<1>10. inSlot' \in BOOLEAN
  BY <1>1, NavigatorAssumption
<1>11. NavInv(T)'
  BY <1>1, <1>9, <1>10
     DEF NavInv, ListInv, Work, ListTypeOK, CurrentIsItem, HistoryShape, itemAt, Count, navVars
<1>12. ASSUME HearInv, SlotsOnChange = FALSE PROVE HearInv'
  <2>1. CopyIsCurrent'
    <3> SUFFICES ASSUME NEW k \in 1 .. Len(agenda),
                        agenda'[k].do \in {"activated", "update"}, agenda'[k].copy # <<>>
                 PROVE  k = 1 /\ ~inSlot' /\ agenda'[k].copy[1] = currentItem'
      BY <1>9 DEF CopyIsCurrent
    <3>1. CASE k = 1
      BY <1>1, <1>5, <1>7, <1>9, <1>12, <3>1 DEF HearInv, CopyIsCurrent, navVars
    <3>2. CASE k # 1
      <4>1. k \in 2 .. Len(agenda)
        BY <1>7, <3>2
      <4>2. agenda'[k] = agenda[k]
        BY <1>9, <4>1
      <4> QED
        BY <1>12, <3>2, <4>2 DEF HearInv, CopyIsCurrent
    <3> QED
      BY <3>1, <3>2
  <2>2. HearsYet'
    <3>1. 1 \in 1 .. Len(agenda')
      BY <1>7, <1>9
    <3> QED
      BY <1>5, <1>9, <3>1 DEF HearsYet
  <2> QED
    BY <2>1, <2>2 DEF HearInv
<1> QED
  BY <1>1, <1>5, <1>9, <1>11, <1>12 DEF navVars

LEMMA HearStep ==
    ASSUME NEW T, NavInv(T), Hear
    PROVE  NavInv(T)' /\ fault' = fault /\ (HearInv => HearInv')
<1>1. /\ ListTypeOK /\ Work(T) /\ agenda \in Seq(T) /\ agenda # <<>>
      /\ agenda[1].do = "update"
      /\ heardMedia' = Announced(agenda[1])
      /\ agenda' = Tail(agenda) /\ inSlot' = FALSE
      /\ UNCHANGED <<navVars, heardIndex, promise>>
      /\ currentItem \in Media \cup {NoContent}
  BY DEF Hear, NavInv, ListInv, Work, ListTypeOK
<1>2. /\ agenda' \in Seq(T) /\ Len(agenda) \in Nat \ {0}
      /\ Len(agenda') = Len(agenda) - 1
      /\ \A k \in 1 .. Len(agenda) - 1 : agenda'[k] = agenda[k + 1]
  BY <1>1
<1>3. agenda[1] \in NavTask
  BY <1>1 DEF Work
<1>4. agenda[1].copy \in {<<>>} \cup {<<m>> : m \in Media \cup {NoContent}}
  BY <1>1, <1>3 DEF NavTask
<1>5. heardMedia' \in Media \cup {NoContent}
  <2>1. CASE agenda[1].copy = <<>>
    BY <1>1, <2>1 DEF Announced
  <2>2. CASE agenda[1].copy # <<>>
    <3>1. PICK m \in Media \cup {NoContent} : agenda[1].copy = <<m>>
      BY <1>4, <2>2
    <3>2. <<m>>[1] = m
      OBVIOUS
    <3> QED
      BY <1>1, <2>2, <3>1, <3>2 DEF Announced
  <2> QED
    BY <2>1, <2>2
<1>6. NavInv(T)'
  BY <1>1, <1>2, <1>5
     DEF NavInv, ListInv, Work, ListTypeOK, CurrentIsItem, HistoryShape, itemAt, Count, navVars
<1>7. ASSUME HearInv PROVE HearInv'
  <2>1. CopyIsCurrent'
    <3> SUFFICES ASSUME NEW k \in 1 .. Len(agenda) - 1,
                        agenda'[k].do \in {"activated", "update"}, agenda'[k].copy # <<>>
                 PROVE  FALSE
      BY <1>2 DEF CopyIsCurrent
    <3>1. k + 1 \in 1 .. Len(agenda) /\ agenda'[k] = agenda[k + 1] /\ k + 1 # 1
      BY <1>2
    <3> QED
      BY <1>7, <3>1 DEF HearInv, CopyIsCurrent
  <2>2. heardMedia' = currentItem
    <3>1. CASE agenda[1].copy = <<>>
      BY <1>1, <3>1 DEF Announced
    <3>2. CASE agenda[1].copy # <<>>
      BY <1>1, <1>2, <1>7, <3>2 DEF Announced, HearInv, CopyIsCurrent
    <3> QED
      BY <3>1, <3>2
  <2> QED
    BY <1>1, <2>1, <2>2 DEF HearInv, HearsYet, navVars
<1> QED
  BY <1>1, <1>6, <1>7 DEF navVars

-----------------------------------------------------------------------------
(* The answer of nextIndex(1) and previousIndex(1) stays the only one.     *)

LEMMA OnlyNext ==
    ASSUME ListInv, playbackMode # "Random" \/ Count = 0,
           NEW a \in nextItemPos(1), NEW b \in nextItemPos(1)
    PROVE  a.pos = b.pos
<1>1. /\ Count \in Nat
      /\ playbackMode \in {"CurrentItemOnce", "CurrentItemInLoop", "Sequential",
                           "Loop", "Random"}
  BY PositionFacts, NavigatorAssumption DEF ListInv, ListTypeOK
<1>2. PICK p : a \in Answer(p) /\ b \in Answer(p)
  <2>1. CASE Count = 0 \/ playbackMode = "CurrentItemOnce"
    BY <1>1, <2>1 DEF nextItemPos
  <2>2. CASE Count > 0 /\ playbackMode = "CurrentItemInLoop"
    BY <1>1, <2>2 DEF nextItemPos
  <2>3. CASE Count > 0 /\ playbackMode = "Sequential"
    BY <1>1, <2>3 DEF nextItemPos
  <2>4. CASE Count > 0 /\ playbackMode = "Loop"
    BY <1>1, <2>4 DEF nextItemPos
  <2> QED
    BY <1>1, <2>1, <2>2, <2>3, <2>4
<1> QED
  BY <1>2 DEF Answer

LEMMA OnlyPrevious ==
    ASSUME ListInv, playbackMode # "Random" \/ Count = 0,
           NEW a \in previousItemPos(1), NEW b \in previousItemPos(1)
    PROVE  a.pos = b.pos
<1>1. /\ Count \in Nat
      /\ playbackMode \in {"CurrentItemOnce", "CurrentItemInLoop", "Sequential",
                           "Loop", "Random"}
  BY PositionFacts, NavigatorAssumption DEF ListInv, ListTypeOK
<1>2. PICK p : a \in Answer(p) /\ b \in Answer(p)
  <2>1. CASE Count = 0 \/ playbackMode = "CurrentItemOnce"
    BY <1>1, <2>1 DEF previousItemPos
  <2>2. CASE Count > 0 /\ playbackMode = "CurrentItemInLoop"
    BY <1>1, <2>2 DEF previousItemPos
  <2>3. CASE Count > 0 /\ playbackMode = "Sequential"
    BY <1>1, <2>3 DEF previousItemPos
  <2>4. CASE Count > 0 /\ playbackMode = "Loop"
    BY <1>1, <2>4 DEF previousItemPos
  <2> QED
    BY <1>1, <2>1, <2>2, <2>3, <2>4
<1> QED
  BY <1>2 DEF Answer

\* In random mode the entry at distance move is chosen.
Chosen(move) ==
    /\ playbackMode = "Random" /\ Count > 0
    /\ randomPositionsOffset + move \in 0 .. Len(randomModePositions) - 1
    /\ randomModePositions[randomPositionsOffset + move + 1] \in 0 .. Count - 1

LEMMA NextChosen ==
    ListInv /\ ~fault /\ Chosen(1) =>
        \A a \in nextItemPos(1) :
            a.pos = randomModePositions[randomPositionsOffset + 1 + 1]
<1> SUFFICES ASSUME ListInv, ~fault, Chosen(1), NEW a \in nextItemPos(1)
             PROVE  a.pos = randomModePositions[randomPositionsOffset + 1 + 1]
  OBVIOUS
<1>1. /\ ListTypeOK /\ playbackMode = "Random" /\ Count > 0 /\ Count \in Nat
  BY PositionFacts DEF ListInv, Chosen
<1>2. PICK s \in Seq(Position) : s = randomModePositions /\ s = Started.positions
  BY <1>1, StartedFacts
<1>3. PICK offset \in 0 .. Len(s) - 1 :
          offset = randomPositionsOffset /\ offset = Started.offset
  BY <1>1, <1>2, StartedFacts
<1>4. offset + 1 \in 0 .. Len(s) - 1 /\ s[offset + 1 + 1] \in 0 .. Count - 1
  BY <1>2, <1>3 DEF Chosen
<1>5. s \o Open(offset + 1 + 1 - Len(s)) = s
  <2>1. Len(s) \in Nat
    OBVIOUS
  <2>2. PICK n \in Int : n = offset + 1 + 1 - Len(s)
    BY <2>1
  <2>3. n <= 0
    BY <1>4, <2>1, <2>2
  <2>4. Open(n) = <<>>
    BY <2>3, OpenFacts, PositionFacts, <1>1
  <2> QED
    BY <2>2, <2>4, ConcatEmptySeq
<1>6. a \in Entry(History(s, offset), offset + 1)
  <2>1. a \in Entry(History(s \o Open(offset + 1 + 1 - Len(s)), offset), offset + 1)
    <3>1. \A l : History(l, offset).offset = offset
      BY DEF History
    <3> QED
      BY <1>1, <1>2, <1>3, <3>1 DEF nextItemPos
  <2> QED
    BY <1>5, <2>1
<1>7. PICK k \in 0 .. Len(s) - 1 : k = offset + 1
  BY <1>4
<1>8. a.pos = s[k + 1]
  <2>1. s[k + 1] \in 0 .. Count - 1 /\ a \in Entry(History(s, offset), k)
    BY <1>4, <1>6, <1>7
  <2> QED
    BY <1>1, <2>1, EntryFacts
<1> QED
  BY <1>2, <1>3, <1>7, <1>8

LEMMA PreviousChosen ==
    ListInv /\ ~fault /\ Chosen(-1) =>
        \A a \in previousItemPos(1) :
            a.pos = randomModePositions[randomPositionsOffset + (-1) + 1]
<1> SUFFICES ASSUME ListInv, ~fault, Chosen(-1), NEW a \in previousItemPos(1)
             PROVE  a.pos = randomModePositions[randomPositionsOffset + (-1) + 1]
  OBVIOUS
<1>1. /\ ListTypeOK /\ playbackMode = "Random" /\ Count > 0 /\ Count \in Nat
  BY PositionFacts DEF ListInv, Chosen
<1>2. PICK s \in Seq(Position) : s = randomModePositions /\ s = Started.positions
  BY <1>1, StartedFacts
<1>3. PICK offset \in 0 .. Len(s) - 1 :
          offset = randomPositionsOffset /\ offset = Started.offset
  BY <1>1, <1>2, StartedFacts
<1>4. offset + (-1) \in 0 .. Len(s) - 1 /\ s[offset + (-1) + 1] \in 0 .. Count - 1
  BY <1>2, <1>3 DEF Chosen
<1>5. Open(1 - offset) \o s = s /\ ~(1 - offset > 0)
  <2>1. Len(s) \in Nat
    OBVIOUS
  <2>2. PICK n \in Int : n = 1 - offset
    BY <2>1
  <2>3. n <= 0
    BY <1>4, <2>1, <2>2
  <2>4. Open(n) = <<>>
    BY <2>3, OpenFacts, PositionFacts, <1>1
  <2> QED
    BY <2>2, <2>3, <2>4, ConcatEmptySeq
<1>6. a \in Entry(History(s, offset), offset - 1)
  <2>1. a \in Entry(History(Open(1 - offset) \o s, offset), offset - 1)
    <3>1. \A l : History(l, offset).offset = offset
      BY DEF History
    <3> QED
      BY <1>1, <1>2, <1>3, <1>5, <3>1 DEF previousItemPos
  <2> QED
    BY <1>5, <2>1
<1>7. PICK k \in 0 .. Len(s) - 1 : k = offset - 1 /\ k = offset + (-1)
  BY <1>4
<1>8. a.pos = s[k + 1]
  <2>1. s[k + 1] \in 0 .. Count - 1 /\ a \in Entry(History(s, offset), k)
    BY <1>4, <1>6, <1>7
  <2> QED
    BY <1>1, <2>1, EntryFacts
<1> QED
  BY <1>2, <1>3, <1>7, <1>8

LEMMA SameAnswers ==
    ASSUME UNCHANGED <<resources, playbackMode, currentPos,
                       randomModePositions, randomPositionsOffset>>
    PROVE  /\ nextItemPos(1)' = nextItemPos(1)
           /\ previousItemPos(1)' = previousItemPos(1)
  BY DEF nextItemPos, previousItemPos, Started, ThisHistory, History, Open, Entry,
         Answer, Count

LEMMA NextChosenLater ==
    (ListInv /\ ~fault /\ Chosen(1) =>
        \A a \in nextItemPos(1) :
            a.pos = randomModePositions[randomPositionsOffset + 1 + 1])'
  BY NextChosen, PTL

LEMMA AskNextForesees ==
    ASSUME ListInv, ListInv', Ask(nextItemPos(1), 1, "next")
    PROVE  Foreseen'
<1>1. /\ ~fault /\ ~fault' /\ Count \in Nat
      /\ UNCHANGED <<resources, playbackMode, currentPos>> /\ Count' = Count
  BY PositionFacts DEF Ask, MayCall, ListInv, Count
<1>2. PICK a \in nextItemPos(1) :
          /\ randomModePositions' = a.history.positions
          /\ randomPositionsOffset' = a.history.offset
          /\ promise' = <<[at |-> a.pos, left |-> 1, way |-> "next"]>>
  BY DEF Ask
<1>3. promise'[1].at = a.pos /\ promise'[1].left = 1 /\ promise'[1].way = "next"
  BY <1>2
<1>4. Leads(a, 1)
  BY <1>1, NextAnswers
<1>5. SUFFICES ASSUME NEW b \in nextItemPos(1)' PROVE b.pos = a.pos
  BY <1>3 DEF Foreseen
<1>6. CASE playbackMode = "Random" /\ Count > 0
  <2>1. Chosen(1)' /\ randomModePositions'[randomPositionsOffset' + 1 + 1] = a.pos
    BY <1>1, <1>2, <1>4, <1>6 DEF Leads, Chosen
  <2> QED
    BY <1>1, <1>5, <2>1, NextChosenLater
<1>7. CASE playbackMode # "Random" \/ Count = 0
  <2>1. nextItemPos(1)' = nextItemPos(1)
    BY <1>1, <1>2, <1>4, <1>7, SameAnswers DEF Leads
  <2> QED
    BY <1>5, <1>7, <2>1, OnlyNext
<1> QED
  BY <1>1, <1>6, <1>7

LEMMA PreviousChosenLater ==
    (ListInv /\ ~fault /\ Chosen(-1) =>
        \A a \in previousItemPos(1) :
            a.pos = randomModePositions[randomPositionsOffset + (-1) + 1])'
  BY PreviousChosen, PTL

LEMMA AskPreviousForesees ==
    ASSUME ListInv, ListInv', Ask(previousItemPos(1), 1, "previous")
    PROVE  Foreseen'
<1>1. /\ ~fault /\ ~fault' /\ Count \in Nat
      /\ UNCHANGED <<resources, playbackMode, currentPos>> /\ Count' = Count
  BY PositionFacts DEF Ask, MayCall, ListInv, Count
<1>2. PICK a \in previousItemPos(1) :
          /\ randomModePositions' = a.history.positions
          /\ randomPositionsOffset' = a.history.offset
          /\ promise' = <<[at |-> a.pos, left |-> 1, way |-> "previous"]>>
  BY DEF Ask
<1>3. promise'[1].at = a.pos /\ promise'[1].left = 1 /\ promise'[1].way = "previous"
  BY <1>2
<1>4. Leads(a, -1)
  BY <1>1, PreviousAnswers
<1>5. SUFFICES ASSUME NEW b \in previousItemPos(1)' PROVE b.pos = a.pos
  BY <1>3 DEF Foreseen
<1>6. CASE playbackMode = "Random" /\ Count > 0
  <2>1. Chosen(-1)' /\ randomModePositions'[randomPositionsOffset' + (-1) + 1] = a.pos
    BY <1>1, <1>2, <1>4, <1>6 DEF Leads, Chosen
  <2> QED
    BY <1>1, <1>5, <2>1, PreviousChosenLater
<1>7. CASE playbackMode # "Random" \/ Count = 0
  <2>1. previousItemPos(1)' = previousItemPos(1)
    BY <1>1, <1>2, <1>4, <1>7, SameAnswers DEF Leads
  <2> QED
    BY <1>5, <1>7, <2>1, OnlyPrevious
<1> QED
  BY <1>1, <1>6, <1>7

\* A step that was announced arrives, and nothing is announced after it.
LEMMA KeptForesees ==
    ASSUME Foreseen, promise \in Seq(Promise), NEW way,
           promise' = Kept(way),
           promise # <<>> /\ promise[1].way = way /\ promise[1].left = 1 =>
               currentPos' = promise[1].at
    PROVE  Foreseen'
<1>1. CASE promise # <<>> /\ promise[1].way = way /\ promise[1].left > 0
  <2>1. PICK q \in Promise : q = promise[1]
    BY <1>1
  <2>2. q.left = 1
    BY <1>1, <2>1 DEF Foreseen
  <2>3. promise' = <<[q EXCEPT !.left = @ - 1]>>
    BY <1>1, <2>1 DEF Kept
  <2>4. PICK r : /\ r = [q EXCEPT !.left = @ - 1]
                 /\ r.left = 0 /\ r.at = q.at
    <3>1. /\ [q EXCEPT !.left = @ - 1].left = q.left - 1
          /\ [q EXCEPT !.left = @ - 1].at = q.at
      BY DEF Promise
    <3>2. q.left - 1 = 0
      BY <2>2
    <3> QED
      BY <3>1, <3>2
  <2>5. promise'[1].left = 0 /\ promise'[1].at = q.at
    <3>1. promise' = <<r>>
      BY <2>3, <2>4
    <3>2. <<r>>[1] = r
      OBVIOUS
    <3> QED
      BY <2>4, <3>1, <3>2
  <2>6. currentPos' = q.at
    BY <1>1, <2>1, <2>2
  <2> QED
    BY <2>5, <2>6 DEF Foreseen
<1>2. CASE ~(promise # <<>> /\ promise[1].way = way /\ promise[1].left > 0)
  BY <1>2 DEF Kept, Foreseen
<1> QED
  BY <1>1, <1>2

-----------------------------------------------------------------------------
(* The whole next-state relation.                                          *)

LEMMA CallsKeep ==
    ASSUME NEW T, NavInv(T), Calls
    PROVE  /\ NavInv(T)' /\ (HearInv => HearInv')
           /\ EmptyRandom = FALSE => ~fault'
<1>1. NavigatorAssumption /\ MaxSteps \in Nat
  BY NavigatorAssumption
<1>2. CASE next
  BY <1>2, NextStep
<1>3. CASE previous
  BY <1>3, PreviousStep
<1>4. CASE shuffle
  <2>1. NavInv(T)' /\ fault' = fault /\ (HearInv => HearInv')
    BY <1>4, ShuffleStep
  <2>2. ~fault
    BY <1>4 DEF shuffle, MayCall
  <2>3. ~fault'
    BY <2>1, <2>2
  <2> QED
    BY <2>1, <2>3
<1>5. ASSUME NEW p \in Position \cup {MaxItems}, setCurrentIndex(p)
      PROVE  NavInv(T)' /\ (HearInv => HearInv') /\ ~fault'
  BY <1>5, SetCurrentIndexStep DEF setCurrentIndex, MayCall
<1>6. ASSUME NEW steps \in 1 .. MaxSteps, nextIndex(steps)
      PROVE  NavInv(T)' /\ (HearInv => HearInv') /\ ~fault'
  <2>1. ~fault /\ steps \in Nat \ {0} /\ Ask(nextItemPos(steps), steps, "next")
    BY <1>1, <1>6 DEF nextIndex, Ask, MayCall
  <2>2. \A a \in nextItemPos(steps) : Leads(a, steps)
    BY <2>1, NextAnswers DEF NavInv
  <2> QED
    BY <2>1, <2>2, AskStep
<1>7. ASSUME NEW steps \in 1 .. MaxSteps, previousIndex(steps)
      PROVE  NavInv(T)' /\ (HearInv => HearInv') /\ ~fault'
  <2>1. ~fault /\ steps \in Nat \ {0} /\ Ask(previousItemPos(steps), steps, "previous")
    BY <1>1, <1>7 DEF previousIndex, Ask, MayCall
  <2>2. \A a \in previousItemPos(steps) : Leads(a, -steps)
    BY <2>1, PreviousAnswers DEF NavInv
  <2> QED
    BY <2>1, <2>2, AskStep
<1>8. ASSUME NEW mode \in Modes, setPlaybackMode(mode)
      PROVE  NavInv(T)' /\ (HearInv => HearInv') /\ ~fault'
  BY <1>8, SetPlaybackModeStep DEF setPlaybackMode, MayCall
<1>9. ASSUME NEW pos \in 0 .. Count,
             NEW items \in {<<m>> : m \in Media} \cup (Media \X Media),
             insertMedia(pos, items)
      PROVE  NavInv(T)' /\ (HearInv => HearInv') /\ ~fault'
  BY <1>9, InsertMediaStep DEF insertMedia, MayCall
<1>10. ASSUME NEW end \in 0 .. Count - 1, NEW start \in 0 .. end, removeMedia(start, end)
       PROVE  NavInv(T)' /\ (HearInv => HearInv') /\ ~fault'
  BY <1>10, RemoveMediaStep DEF removeMedia, MayCall
<1> QED
  BY <1>2, <1>3, <1>4, <1>5, <1>6, <1>7, <1>8, <1>9, <1>10 DEF Calls

LEMMA NavStart ==
    ASSUME Init
    PROVE  NavInv(NavTask) /\ HearInv /\ ~fault /\ Foreseen
<1>1. ListTypeOK /\ agenda \in Seq(NavTask)
  <2>1. /\ resources \in Seq(Media) /\ Count = 0
        /\ randomModePositions \in Seq(Position)
        /\ agenda \in Seq(NavTask) /\ promise \in Seq(Promise)
    BY DEF Init, Count
  <2>2. MaxItems \in Nat /\ "Sequential" \in Modes
    BY NavigatorAssumption
  <2>3. -1 \in Position
    BY <2>2 DEF Position
  <2>4. /\ Count <= MaxItems /\ playbackMode \in Modes
        /\ currentPos \in Position /\ heardIndex \in Position
        /\ currentItem \in Media \cup {NoContent} /\ heardMedia \in Media \cup {NoContent}
        /\ randomPositionsOffset \in Int /\ {fault, inSlot} \subseteq BOOLEAN
    <3>1. /\ playbackMode = "Sequential" /\ currentPos = -1 /\ heardIndex = -1
          /\ currentItem = NoContent /\ heardMedia = NoContent
          /\ randomPositionsOffset = -1 /\ fault = FALSE /\ inSlot = FALSE
      BY DEF Init
    <3>2. {fault, inSlot} \subseteq BOOLEAN
      BY <3>1
    <3> QED
      BY <2>1, <2>2, <2>3, <3>1, <3>2
  <2> QED
    BY <2>1, <2>4 DEF ListTypeOK
<1> QED
  BY <1>1 DEF Init, NavInv, ListInv, Work, CurrentIsItem, itemAt, Count, HistoryShape, HearInv,
              CopyIsCurrent, HearsYet, Foreseen

LEMMA NavStays ==
    ASSUME NEW T, NavInv(T), [Next]_vars
    PROVE  /\ NavInv(T)'
           /\ HearInv /\ SlotsOnChange = FALSE => HearInv'
           /\ ~fault /\ EmptyRandom = FALSE => ~fault'
<1>1. CASE Calls
  BY <1>1, CallsKeep
<1>2. CASE DeliverIndex
  BY <1>2, DeliverIndexStep
<1>3. CASE DeliverMedia
  <2>1. /\ NavInv(T)' /\ fault' = fault
        /\ HearInv /\ SlotsOnChange = FALSE => HearInv'
    BY <1>3, DeliverMediaStep
  <2>2. ~fault => ~fault'
    BY <2>1
  <2> QED
    BY <2>1, <2>2
<1>4. CASE Hear
  BY <1>4, HearStep
<1>5. CASE UNCHANGED vars
  BY <1>5 DEF vars, navVars, listeners, NavInv, ListInv, Work, ListTypeOK, CurrentIsItem, HistoryShape,
              HearInv, CopyIsCurrent, HearsYet, itemAt, Count
<1> QED
  BY <1>1, <1>2, <1>3, <1>4, <1>5 DEF Next

\* With one step at most asked for, the answer holds until it is used.
LEMMA ForeseenStays ==
    ASSUME NavInv(NavTask), NavInv(NavTask)', Foreseen, EmptyRandom = FALSE, MaxSteps <= 1, [Next]_vars
    PROVE  Foreseen'
<1>1. MaxSteps \in Nat /\ promise \in Seq(Promise)
  BY NavigatorAssumption DEF NavInv, ListInv, ListTypeOK
<1>2. CASE next
  <2>1. PICK a \in nextItemPos(1) : currentPos' = a.pos
    BY <1>2, NextStep
  <2>2. promise' = Kept("next")
    BY <1>2 DEF next
  <2>3. promise # <<>> /\ promise[1].way = "next" /\ promise[1].left = 1 =>
            currentPos' = promise[1].at
    BY <2>1 DEF Foreseen
  <2> QED
    BY <1>1, <2>2, <2>3, KeptForesees
<1>3. CASE previous
  <2>1. PICK a \in previousItemPos(1) : currentPos' = a.pos
    BY <1>3, PreviousStep
  <2>2. promise' = Kept("previous")
    BY <1>3 DEF previous
  <2>3. promise # <<>> /\ promise[1].way = "previous" /\ promise[1].left = 1 =>
            currentPos' = promise[1].at
    BY <2>1 DEF Foreseen
  <2> QED
    BY <1>1, <2>2, <2>3, KeptForesees
<1>4. ASSUME NEW steps \in 1 .. MaxSteps, nextIndex(steps) \/ previousIndex(steps)
      PROVE  Foreseen'
  <2>1. steps = 1
    BY <1>1
  <2> QED
    BY <1>4, <2>1, AskNextForesees, AskPreviousForesees DEF NavInv, nextIndex, previousIndex
<1>5. CASE promise' = <<>>
  BY <1>5 DEF Foreseen
<1>6. CASE UNCHANGED <<navVars, promise>>
  BY <1>6, SameAnswers DEF Foreseen, navVars
<1> QED
  BY <1>2, <1>3, <1>4, <1>5, <1>6
     DEF Next, Calls, shuffle, setCurrentIndex, setPlaybackMode, insertMedia, removeMedia,
         DeliverIndex, DeliverMedia, Hear, vars

-----------------------------------------------------------------------------
\* Every variable keeps its type, whatever is called and delivered.
THEOREM NavTypeCorrect == Spec => []NavTypeOK
<1>1. Init => NavInv(NavTask)
  BY NavStart
<1>2. NavInv(NavTask) /\ [Next]_vars => NavInv(NavTask)'
  BY NavStays
<1>3. NavInv(NavTask) => NavTypeOK
  BY DEF NavInv, ListInv, Work, ListTypeOK, NavTypeOK
<1> QED
  BY <1>1, <1>2, <1>3, PTL DEF Spec

\* However long the list is and however often it is changed and navigated, the
\* current item is the one the list has at the current position.
THEOREM CurrentIsItemHolds == Spec => []CurrentIsItem
<1>1. Init => NavInv(NavTask)
  BY NavStart
<1>2. NavInv(NavTask) /\ [Next]_vars => NavInv(NavTask)'
  BY NavStays
<1>3. NavInv(NavTask) => CurrentIsItem
  BY DEF NavInv, ListInv
<1> QED
  BY <1>1, <1>2, <1>3, PTL DEF Spec

\* The history of random mode is never indexed out of its range, if next() and
\* previous() are not called in this mode while the list is empty.
THEOREM HistoryInRangeHolds ==
    ASSUME EmptyRandom = FALSE
    PROVE  Spec => []HistoryInRange
<1>1. Init => NavInv(NavTask) /\ ~fault
  BY NavStart
<1>2. NavInv(NavTask) /\ ~fault /\ [Next]_vars => NavInv(NavTask)' /\ ~fault'
  BY NavStays
<1>3. ~fault => HistoryInRange
  BY DEF HistoryInRange
<1> QED
  BY <1>1, <1>2, <1>3, PTL DEF Spec

\* However deep the slots of the application nest, the player hears of the item
\* last that is current when all is delivered, if no slot calls the playlist
\* while a changed item is announced.
THEOREM PlayerHeardLastHolds ==
    ASSUME SlotsOnChange = FALSE
    PROVE  Spec => []PlayerHeardLast
<1>1. Init => NavInv(NavTask) /\ HearInv
  BY NavStart
<1>2. NavInv(NavTask) /\ HearInv /\ [Next]_vars => NavInv(NavTask)' /\ HearInv'
  BY NavStays
<1>3. HearInv => PlayerHeardLast
  BY DEF HearInv, HearsYet, PlayerHeardLast
<1> QED
  BY <1>1, <1>2, <1>3, PTL DEF Spec

\* What nextIndex(1) and previousIndex(1) announce is where next() and previous()
\* lead, in every mode, random mode included, from a history of any length.
THEOREM PromiseKeptHolds ==
    ASSUME EmptyRandom = FALSE, MaxSteps <= 1
    PROVE  Spec => []PromiseKept
<1>1. Init => NavInv(NavTask) /\ Foreseen
  BY NavStart
<1>2. NavInv(NavTask) /\ Foreseen /\ [Next]_vars => NavInv(NavTask)' /\ Foreseen'
  BY NavStays, ForeseenStays
<1>3. Foreseen => PromiseKept
  BY DEF Foreseen, PromiseKept
<1> QED
  BY <1>1, <1>2, <1>3, PTL DEF Spec

(***************************************************************************)
(* II.  The control: what its calls and the messages of the pipeline keep. *)
(***************************************************************************)

\* A pipeline that is in its null state, and stays there, has no more to say than
\* that it was refused.
Quiet(c) ==
    c.target = "null" =>
        /\ c.at = "null" /\ c.place = "start" /\ c.session = "Stopped"
        /\ \A k \in 1 .. Len(c.bus) : c.bus[k] = "error"

\* Only media that are buffered have levels on the bus.
Levels(c) ==
    \A k \in 1 .. Len(c.bus) : c.bus[k] \in {"low", "full"} => c.uri \in Buffered

\* If nothing fails late, an error on the bus means that the pipeline was refused.
Refused(c) ==
    FailsLate = {} =>
        \A k \in 1 .. Len(c.bus) :
            c.bus[k] = "error" =>
                /\ c.target = "null" /\ c.state = "Stopped"
                /\ c.uri \in FailsAtOnce \cup {NoContent}

Piped(c) == c \in Control!Control /\ Quiet(c) /\ Levels(c) /\ Refused(c)

\* What only setMedia and seeking change.
SameMedia(d, c) ==
    /\ d.media = c.media /\ d.uri = c.uri
    /\ d.pendingSeek = c.pendingSeek /\ d.seekToStart = c.seekToStart

\* The fields that the pipeline and its session have.
SamePipe(d, c) ==
    /\ d.target = c.target /\ d.at = c.at /\ d.place = c.place
    /\ d.bus = c.bus /\ d.session = c.session

SameEnd(d, c) == d.status = "EndOfMedia" <=> c.status = "EndOfMedia"

LEMMA StatusFacts ==
    ASSUME NEW c \in Control!Control, NEW d, d = Control!updateMediaStatus(c)
    PROVE  /\ d \in Control!Control
           /\ d.state = c.state /\ SameMedia(d, c) /\ SamePipe(d, c) /\ SameEnd(d, c)
  BY DEF Control!Control, Control!Status, Control!updateMediaStatus, Control!FullyBuffered,
         SameMedia, SamePipe, SameEnd

\* Records with some fields replaced.
LEMMA AskFacts ==
    ASSUME NEW c \in Control!Control, NEW to \in {"paused", "playing"},
           NEW d, d = Control!Ask(c, to)
    PROVE  /\ d \in Control!Control
           /\ SameMedia(d, c) /\ SameEnd(d, c) /\ d.at = c.at /\ d.place = c.place
           /\ Control!Starts(c) =>
                 /\ d.state = c.state /\ d.session = c.session
                 /\ d.target = to /\ d.bus = c.bus
           /\ ~Control!Starts(c) =>
                 /\ d.state = "Stopped" /\ d.session = "Stopped"
                 /\ d.target = c.target /\ d.bus = Append(c.bus, "error")
<1>1. CASE Control!Starts(c)
  BY <1>1 DEF Control!Control, Control!Ask, SameMedia, SameEnd
<1>2. CASE ~Control!Starts(c)
  <2>1. Append(c.bus, "error") \in Seq(Control!Message)
    BY DEF Control!Control, Control!Message
  <2>2. PICK bus \in Seq(Control!Message) : bus = Append(c.bus, "error")
    BY <2>1
  <2>3. PICK e \in Control!Control :
            e = [c EXCEPT !.session = "Stopped", !.bus = bus, !.state = "Stopped"]
    BY DEF Control!Control, Control!State
  <2>4. d = Control!updateMediaStatus(e)
    BY <1>2, <2>2, <2>3 DEF Control!Ask, Control!updateSessionState, Control!Control
  <2>5. /\ e.state = "Stopped" /\ e.session = "Stopped" /\ e.bus = bus
        /\ e.target = c.target /\ e.at = c.at /\ e.place = c.place
        /\ SameMedia(e, c) /\ SameEnd(e, c)
    BY <2>3 DEF Control!Control, SameMedia, SameEnd
  <2>6. /\ d \in Control!Control
        /\ d.state = e.state /\ SameMedia(d, e) /\ SamePipe(d, e) /\ SameEnd(d, e)
    BY <2>4, StatusFacts
  <2> QED
    BY <1>2, <2>2, <2>5, <2>6 DEF SameMedia, SamePipe, SameEnd
<1> QED
  BY <1>1, <1>2

LEMMA SessionStopFacts ==
    ASSUME NEW c \in Control!Control, NEW d, d = Control!sessionStop(c)
    PROVE  /\ d \in Control!Control
           /\ SameMedia(d, c) /\ SameEnd(d, c)
           /\ d.target = "null" /\ d.at = "null" /\ d.place = "start"
           /\ d.bus = <<>> /\ d.session = "Stopped"
           /\ d.state = IF c.session = "Stopped" THEN c.state ELSE "Stopped"
<1>1. <<>> \in Seq(Control!Message)
  OBVIOUS
<1>2. PICK bus \in Seq(Control!Message) : bus = <<>>
  BY <1>1
<1>3. PICK p \in Control!Control :
          p = [c EXCEPT !.target = "null", !.at = "null", !.place = "start",
                        !.level = "none"]
  BY DEF Control!Control, Control!Place
<1>10. PICK e \in Control!Control :
          e = [p EXCEPT !.bus = bus, !.session = "Stopped", !.seekable = FALSE]
  BY DEF Control!Control, Control!State
<1>11. e = [c EXCEPT !.target = "null", !.at = "null", !.place = "start",
                        !.level = "none", !.bus = <<>>,
                        !.session = "Stopped", !.seekable = FALSE]
  BY <1>2, <1>3, <1>10 DEF Control!Control
<1>4. /\ e.target = "null" /\ e.at = "null" /\ e.place = "start" /\ e.bus = bus
      /\ e.session = "Stopped" /\ e.state = c.state /\ SameMedia(e, c) /\ SameEnd(e, c)
  BY <1>3, <1>10 DEF Control!Control, SameMedia, SameEnd
<1>5. CASE c.session = "Stopped"
  <2>1. d = e
    BY <1>11, <1>5 DEF Control!sessionStop
  <2> QED
    BY <1>2, <1>4, <1>5, <2>1
<1>6. CASE c.session # "Stopped"
  <2>1. PICK f \in Control!Control : f = [e EXCEPT !.state = "Stopped"]
    BY DEF Control!Control, Control!State
  <2>2. d = Control!updateMediaStatus(f)
    BY <1>11, <1>6, <2>1 DEF Control!sessionStop, Control!updateSessionState
  <2>3. f.state = "Stopped" /\ SameMedia(f, e) /\ SamePipe(f, e) /\ SameEnd(f, e)
    BY <2>1 DEF Control!Control, SameMedia, SamePipe, SameEnd
  <2>4. /\ d \in Control!Control
        /\ d.state = f.state /\ SameMedia(d, f) /\ SamePipe(d, f) /\ SameEnd(d, f)
    BY <2>2, StatusFacts
  <2> QED
    BY <1>2, <1>4, <1>6, <2>3, <2>4 DEF SameMedia, SamePipe, SameEnd
<1> QED
  BY <1>5, <1>6

LEMMA AskPiped ==
    ASSUME NEW c, Piped(c), NEW to \in {"paused", "playing"},
           NEW d, d = Control!Ask(c, to)
    PROVE  Piped(d) /\ (~Control!Starts(c) => d.target = "null")
<1>1. c \in Control!Control /\ c.bus \in Seq(Control!Message) /\ Len(c.bus) \in Nat
  BY DEF Piped, Control!Control
<1>2. CASE Control!Starts(c)
  <2>1. /\ d \in Control!Control /\ d.uri = c.uri /\ d.at = c.at /\ d.place = c.place
        /\ d.state = c.state /\ d.session = c.session /\ d.target = to /\ d.bus = c.bus
    BY <1>1, <1>2, AskFacts DEF SameMedia
  <2>2. c.target # "null" \/ c.uri \notin FailsAtOnce \cup {NoContent}
    BY <1>2 DEF Control!Starts
  <2> QED
    BY <1>2, <2>1, <2>2 DEF Piped, Quiet, Levels, Refused
<1>3. CASE ~Control!Starts(c)
  <2>1. /\ d \in Control!Control /\ d.uri = c.uri /\ d.at = c.at /\ d.place = c.place
        /\ d.state = "Stopped" /\ d.session = "Stopped"
        /\ d.target = c.target /\ d.bus = Append(c.bus, "error")
    BY <1>1, <1>3, AskFacts DEF SameMedia
  <2>2. c.target = "null" /\ c.uri \in FailsAtOnce \cup {NoContent}
    BY <1>3 DEF Control!Starts
  <2>3. /\ Len(d.bus) = Len(c.bus) + 1
        /\ \A k \in 1 .. Len(c.bus) : d.bus[k] = c.bus[k]
        /\ d.bus[Len(c.bus) + 1] = "error"
    BY <1>1, <2>1
  <2>4. \A k \in 1 .. Len(d.bus) : k \in 1 .. Len(c.bus) \/ d.bus[k] = "error"
    BY <1>1, <2>3
  <2> QED
    BY <1>1, <2>1, <2>2, <2>3, <2>4 DEF Piped, Quiet, Levels, Refused
<1> QED
  BY <1>2, <1>3

LEMMA SessionStopPiped ==
    ASSUME NEW c \in Control!Control, NEW d, d = Control!sessionStop(c)
    PROVE  Piped(d)
<1>1. /\ d \in Control!Control /\ d.target = "null" /\ d.at = "null" /\ d.place = "start"
      /\ d.bus = <<>> /\ d.session = "Stopped"
  BY SessionStopFacts
<1>2. \A k \in 1 .. Len(d.bus) : FALSE
  BY <1>1
<1> QED
  BY <1>1, <1>2 DEF Piped, Quiet, Levels, Refused

\* Where the pipeline cannot seek it is stopped, and then it is at the start.
LEMMA RewoundFacts ==
    ASSUME NEW c, Piped(c), NEW d, d = Control!Rewound(c)
    PROVE  /\ Piped(d)
           /\ d.media = c.media /\ d.uri = c.uri /\ d.pendingSeek = c.pendingSeek
           /\ d.seekToStart = FALSE /\ d.place = "start"
<1> DEFINE p == Control!Ask(c, "paused")
<1>1. c \in Control!Control
  BY DEF Piped
<1>2. PICK q : q = p
  OBVIOUS
<1>3. Piped(q) /\ q \in Control!Control /\ SameMedia(q, c)
  BY <1>1, <1>2, AskFacts, AskPiped DEF Piped
<1>4. ASSUME NEW e, Piped(e), SameMedia(e, c), e.place = "start",
             d = [e EXCEPT !.seekToStart = FALSE]
      PROVE  /\ Piped(d)
             /\ d.media = c.media /\ d.uri = c.uri /\ d.pendingSeek = c.pendingSeek
             /\ d.seekToStart = FALSE /\ d.place = "start"
  <2>1. /\ d \in Control!Control /\ d.seekToStart = FALSE
        /\ d.media = e.media /\ d.uri = e.uri /\ d.pendingSeek = e.pendingSeek
        /\ d.state = e.state /\ SamePipe(d, e)
    BY <1>4 DEF Piped, Control!Control, SamePipe
  <2> QED
    BY <1>4, <2>1 DEF Piped, Quiet, Levels, Refused, SameMedia, SamePipe
<1>5. CASE Control!CanSeek(q)
  <2>1. PICK e \in Control!Control : e = [q EXCEPT !.place = "start"]
    BY <1>3 DEF Control!Control, Control!Place
  <2>2. /\ e.place = "start" /\ SameMedia(e, q) /\ e.state = q.state /\ e.target = q.target
        /\ e.at = q.at /\ e.bus = q.bus /\ e.session = q.session
    BY <1>3, <2>1 DEF Control!Control, SameMedia
  <2>3. Piped(e) /\ SameMedia(e, c)
    BY <1>3, <2>1, <2>2 DEF Piped, Quiet, Levels, Refused, SameMedia
  <2>4. d = [e EXCEPT !.seekToStart = FALSE]
    BY <1>2, <1>5, <2>1 DEF Control!Rewound
  <2> QED
    BY <1>4, <2>2, <2>3, <2>4
<1>6. CASE ~Control!CanSeek(q)
  <2>1. PICK r \in Control!Control : r = [q EXCEPT !.buffer = "none"]
    BY <1>3 DEF Control!Control
  <2>2. PICK s : s = Control!sessionStop(r)
    OBVIOUS
  <2>3. s \in Control!Control /\ Piped(s) /\ SameMedia(s, r) /\ s.place = "start"
    BY <2>2, SessionStopFacts, SessionStopPiped
  <2>4. PICK e \in Control!Control : e = [s EXCEPT !.status = "Loading"]
    BY <2>3 DEF Control!Control, Control!Status
  <2>5. SameMedia(e, s) /\ e.state = s.state /\ SamePipe(e, s)
    BY <2>3, <2>4 DEF Control!Control, SameMedia, SamePipe
  <2>6. SameMedia(r, q)
    BY <1>3, <2>1 DEF Control!Control, SameMedia
  <2>7. Piped(e) /\ SameMedia(e, c) /\ e.place = "start"
    BY <1>3, <2>3, <2>4, <2>5, <2>6 DEF Piped, Quiet, Levels, Refused, SameMedia, SamePipe
  <2>8. d = [e EXCEPT !.seekToStart = FALSE]
    BY <1>2, <1>6, <2>1, <2>2, <2>4 DEF Control!Rewound
  <2> QED
    BY <1>4, <2>7, <2>8
<1> QED
  BY <1>5, <1>6

Target(s) == IF s = "Playing" THEN "playing" ELSE "paused"

\* The pipeline was asked for the state, or has refused, and begins at the start
\* after the end of the media or a stop.
PlaysAs(d, c, s) ==
    /\ \/ d.state = s /\ d.target = Target(s)
       \/ d.state = "Stopped" /\ d.target = "null"
    /\ d.place = "start" \/ d.place = c.place
    /\ c.status = "EndOfMedia" \/ c.seekToStart => d.place = "start"

LEMMA PlayOrPauseFacts ==
    ASSUME NEW c, Piped(c), NEW s \in {"Paused", "Playing"},
           NEW d, d = Control!playOrPause(c, s)
    PROVE  /\ Piped(d)
           /\ d.media = c.media /\ d.uri = c.uri /\ d.pendingSeek = c.pendingSeek
           /\ d.status \notin {"EndOfMedia", "Invalid"}
           /\ d = c \/ PlaysAs(d, c, s)
<1>1. c \in Control!Control
  BY DEF Piped
<1>2. CASE c.status = "NoMedia"
  BY <1>2 DEF Control!playOrPause
<1>3. CASE c.status # "NoMedia"
  <2>1. PICK b \in Control!Control :
            b = [c EXCEPT !.status = IF c.status = "EndOfMedia" THEN "Buffered" ELSE @,
                          !.seekToStart = @ \/ c.status = "EndOfMedia"]
    BY <1>1 DEF Control!Control, Control!Status
  <2>2. /\ b.media = c.media /\ b.uri = c.uri /\ b.pendingSeek = c.pendingSeek
        /\ b.seekToStart = (c.seekToStart \/ c.status = "EndOfMedia")
        /\ b.state = c.state /\ SamePipe(b, c)
    BY <1>1, <2>1 DEF Control!Control, SamePipe
  <2>3. Piped(b)
    BY <2>2 DEF Piped, Quiet, Levels, Refused, SamePipe
  <2>4. PICK r : r = IF b.seekToStart THEN Control!Rewound(b) ELSE b
    OBVIOUS
  <2>5. /\ Piped(r) /\ r \in Control!Control
        /\ r.media = c.media /\ r.uri = c.uri /\ r.pendingSeek = c.pendingSeek
        /\ r.place = "start" \/ r.place = c.place
        /\ c.status = "EndOfMedia" \/ c.seekToStart => r.place = "start"
    <3>1. CASE b.seekToStart
      BY <2>2, <2>3, <2>4, <3>1, RewoundFacts DEF Piped
    <3>2. CASE ~b.seekToStart
      BY <2>2, <2>3, <2>4, <3>2 DEF Piped, SamePipe
    <3> QED
      BY <3>1, <3>2
  <2>6. PICK a : a = Control!Ask(r, Target(s))
    OBVIOUS
  <2>7. Target(s) \in {"paused", "playing"}
    BY DEF Target
  <2>8. /\ Piped(a) /\ a \in Control!Control /\ SameMedia(a, r) /\ a.place = r.place
        /\ Control!Starts(r) => a.target = Target(s)
        /\ ~Control!Starts(r) => a.target = "null"
    BY <2>5, <2>6, <2>7, AskFacts, AskPiped DEF Piped
  <2>9. PICK status \in Control!Status \ {"EndOfMedia", "Invalid"} : status = Control!Begun(a)
    BY <2>8 DEF Control!Begun, Control!Control, Control!Status, Control!FullyBuffered
  <2>13. PICK to \in Control!State : to = IF Control!Starts(r) THEN s ELSE "Stopped"
    BY DEF Control!State
  <2>10. d = [a EXCEPT !.status = status, !.state = to]
    BY <1>3, <2>1, <2>4, <2>6, <2>9, <2>13 DEF Control!playOrPause, Target
  <2>11. /\ d \in Control!Control /\ SameMedia(d, a) /\ SamePipe(d, a)
         /\ d.status = status /\ d.state = to
    BY <2>8, <2>10 DEF Control!Control, SameMedia, SamePipe
  <2>12. Piped(d)
    BY <2>7, <2>8, <2>11, <2>13 DEF Piped, Quiet, Levels, Refused, SameMedia, SamePipe
  <2> QED
    BY <2>5, <2>8, <2>9, <2>11, <2>12, <2>13 DEF SameMedia, SamePipe, PlaysAs
<1> QED
  BY <1>2, <1>3

\* From where playing begins at the start, or is taken there first.
Fresh(c) ==
    \/ c.status = "EndOfMedia" \/ c.seekToStart
    \/ c.place = "start" /\ c.at # "playing"

LEMMA StopFacts ==
    ASSUME NEW c, Piped(c), NEW d, d = Control!stop(c)
    PROVE  /\ Piped(d)
           /\ d.media = c.media /\ d.uri = c.uri /\ d.pendingSeek = c.pendingSeek
           /\ d.state = "Stopped"
           /\ \/ d = c
              \/ d.target # "playing" /\ Fresh(d)
<1>1. c \in Control!Control
  BY DEF Piped
<1>2. CASE c.state = "Stopped"
  BY <1>2 DEF Control!stop
<1>3. CASE c.state # "Stopped"
  <2>1. PICK b \in Control!Control : b = [c EXCEPT !.state = "Stopped"]
    BY <1>1 DEF Control!Control, Control!State
  <2>2. SameMedia(b, c) /\ SamePipe(b, c) /\ b.state = "Stopped"
    BY <1>1, <2>1 DEF Control!Control, SameMedia, SamePipe
  <2>3. Piped(b)
    BY <2>2 DEF Piped, Quiet, Levels, Refused, SameMedia, SamePipe
  <2>4. PICK a : a = Control!Ask(b, "paused")
    OBVIOUS
  <2>5. /\ Piped(a) /\ a \in Control!Control /\ SameMedia(a, b) /\ a.state = "Stopped"
        /\ a.target \in {"null", "paused"}
    BY <2>2, <2>3, <2>4, AskFacts, AskPiped DEF Piped
  <2>6. PICK seek \in BOOLEAN : seek = (a.seekToStart \/ a.status # "EndOfMedia")
    OBVIOUS
  <2>7. d = [a EXCEPT !.seekToStart = seek]
    BY <1>3, <2>1, <2>4, <2>6 DEF Control!stop
  <2>8. /\ d \in Control!Control /\ SamePipe(d, a) /\ d.state = a.state
        /\ d.status = a.status /\ d.seekToStart = seek
        /\ d.media = a.media /\ d.uri = a.uri /\ d.pendingSeek = a.pendingSeek
    BY <2>5, <2>7 DEF Control!Control, SamePipe
  <2>9. Piped(d)
    BY <2>5, <2>8 DEF Piped, Quiet, Levels, Refused, SamePipe
  <2> QED
    BY <2>2, <2>5, <2>6, <2>8, <2>9 DEF SameMedia, SamePipe, Fresh
<1> QED
  BY <1>2, <1>3

LEMMA SetMediaFacts ==
    ASSUME NEW c \in Control!Control, NEW m \in Media \cup {NoContent},
           NEW d, d = Control!setMedia(c, m)
    PROVE  /\ Piped(d)
           /\ d.media = m /\ d.state = "Stopped" /\ d.pendingSeek = "none"
           /\ d.target # "playing" /\ d.at = "null" /\ d.place = "start"
           /\ m = NoContent => d.status = "NoMedia"
<1>1. PICK b \in Control!Control : b = [c EXCEPT !.state = "Stopped", !.pendingSeek = "none"]
  BY DEF Control!Control, Control!State
<1>2. b.state = "Stopped" /\ b.pendingSeek = "none"
  BY <1>1 DEF Control!Control
<1>3. PICK r : r = Control!sessionStop(b)
  OBVIOUS
<1>4. /\ r \in Control!Control /\ Piped(r) /\ r.state = "Stopped" /\ r.pendingSeek = "none"
      /\ r.target = "null" /\ r.at = "null" /\ r.place = "start"
      /\ r.bus = <<>> /\ r.session = "Stopped"
  BY <1>2, <1>3, SessionStopFacts, SessionStopPiped DEF SameMedia
<1>5. PICK s \in Control!Control : s = [r EXCEPT !.buffer = "none"]
  BY <1>4 DEF Control!Control
<1>6. /\ s.state = "Stopped" /\ s.pendingSeek = "none"
      /\ s.target = "null" /\ s.at = "null" /\ s.place = "start"
      /\ s.bus = r.bus /\ s.session = "Stopped"
  BY <1>4, <1>5 DEF Control!Control
<1>7. ASSUME NEW e \in Control!Control, e.state = "Stopped", e.pendingSeek = "none",
             e.target = "null", e.at = "null", e.place = "start",
             e.bus = r.bus, e.session = "Stopped"
      PROVE  Piped(e)
  <2>1. \A k \in 1 .. Len(e.bus) : FALSE
    BY <1>4, <1>7
  <2> QED
    BY <1>7, <2>1 DEF Piped, Quiet, Levels, Refused
<1>8. CASE m \in Unreadable
  <2>1. m # NoContent
    BY <1>8, PlayerAssumption, NavigatorAssumption
  <2>2. d = [s EXCEPT !.status = "Invalid", !.media = m]
    BY <1>1, <1>3, <1>5, <1>8 DEF Control!setMedia
  <2>3. /\ d \in Control!Control /\ d.media = m /\ d.state = s.state /\ SamePipe(d, s)
        /\ d.pendingSeek = s.pendingSeek
    BY <2>2 DEF Control!Control, Control!Status, SamePipe
  <2> QED
    BY <1>6, <1>7, <2>1, <2>3 DEF SamePipe
<1>9. CASE m \notin Unreadable
  <2>1. PICK l \in Control!Control :
            l = [s EXCEPT !.media = m, !.uri = m, !.seekToStart = FALSE]
    BY DEF Control!Control
  <2>2. l.media = m /\ l.state = s.state /\ SamePipe(l, s) /\ l.pendingSeek = s.pendingSeek
    BY <2>1 DEF Control!Control, SamePipe
  <2>3. ASSUME NEW t \in {"NoMedia", "Loading"}, NEW e, e = [l EXCEPT !.status = t]
        PROVE  /\ e \in Control!Control /\ Piped(e) /\ e.media = m /\ e.state = "Stopped"
               /\ e.pendingSeek = "none" /\ e.target = "null" /\ e.at = "null"
               /\ e.place = "start" /\ e.status = t
    <3>1. /\ e \in Control!Control /\ e.media = m /\ e.state = l.state /\ SamePipe(e, l)
          /\ e.pendingSeek = l.pendingSeek /\ e.status = t
      BY <2>2, <2>3 DEF Control!Control, Control!Status, SamePipe
    <3> QED
      BY <1>6, <1>7, <2>2, <3>1 DEF SamePipe
  <2>4. CASE m = NoContent
    <3>1. d = [l EXCEPT !.status = "NoMedia"]
      BY <1>1, <1>3, <1>5, <1>9, <2>1, <2>4 DEF Control!setMedia
    <3> QED
      BY <2>3, <2>4, <3>1
  <2>5. CASE m # NoContent
    <3>1. PICK e : e = [l EXCEPT !.status = "Loading"]
      OBVIOUS
    <3>2. d = Control!Ask(e, "paused")
      BY <1>1, <1>3, <1>5, <1>9, <2>1, <2>5, <3>1 DEF Control!setMedia
    <3>3. /\ e \in Control!Control /\ Piped(e) /\ e.media = m /\ e.state = "Stopped"
          /\ e.pendingSeek = "none" /\ e.target = "null" /\ e.at = "null"
          /\ e.place = "start"
      BY <2>3, <3>1
    <3>4. Piped(d) /\ SameMedia(d, e) /\ d.at = e.at /\ d.place = e.place
          /\ d.state = "Stopped" /\ d.target \in {"null", "paused"}
      BY <3>2, <3>3, AskFacts, AskPiped
    <3> QED
      BY <2>5, <3>3, <3>4 DEF SameMedia
  <2> QED
    BY <2>4, <2>5
<1> QED
  BY <1>8, <1>9

\* What seeking leaves alone.
LEMMA SetPositionFacts ==
    ASSUME NEW c, Piped(c), NEW place \in Control!Place,
           NEW d, d = Control!setPosition(c, place)
    PROVE  /\ Piped(d)
           /\ d.media = c.media /\ d.uri = c.uri /\ d.state = c.state
           /\ d.target = c.target /\ d.at = c.at /\ d.bus = c.bus /\ d.session = c.session
<1>1. c \in Control!Control
  BY DEF Piped
<1>2. PICK b \in Control!Control :
          b = [c EXCEPT !.status = IF c.status = "EndOfMedia" THEN "Loaded" ELSE @,
                        !.seekToStart = @ \/ c.status = "EndOfMedia"]
  BY <1>1 DEF Control!Control, Control!Status
<1>3. b.media = c.media /\ b.uri = c.uri /\ b.state = c.state /\ SamePipe(b, c)
  BY <1>1, <1>2 DEF Control!Control, SamePipe
<1>4. CASE c.seekable /\ Control!CanSeek(b)
  <2>1. d = [b EXCEPT !.seekToStart = FALSE, !.pendingSeek = "none", !.place = place]
    BY <1>2, <1>4 DEF Control!setPosition
  <2>2. /\ d \in Control!Control /\ d.media = b.media /\ d.uri = b.uri /\ d.state = b.state
        /\ d.target = b.target /\ d.at = b.at /\ d.bus = b.bus /\ d.session = b.session
    BY <2>1 DEF Control!Control
  <2>3. c.target # "null"
    BY <1>3, <1>4 DEF Control!CanSeek, Piped, Quiet, SamePipe
  <2> QED
    BY <1>3, <2>2, <2>3 DEF Piped, Quiet, Levels, Refused, SamePipe
<1>5. CASE ~(c.seekable /\ Control!CanSeek(b))
  <2>1. d = [b EXCEPT !.pendingSeek = place]
    BY <1>2, <1>5 DEF Control!setPosition
  <2>2. /\ d \in Control!Control /\ d.media = b.media /\ d.uri = b.uri /\ d.state = b.state
        /\ SamePipe(d, b)
    BY <2>1 DEF Control!Control, SamePipe
  <2> QED
    BY <1>3, <2>2 DEF Piped, Quiet, Levels, Refused, SamePipe
<1> QED
  BY <1>4, <1>5

\* What a message does to the state, the pipeline asked for and the place, as far
\* as it matters who plays and from where.
Told(d, c) ==
    /\ Piped(d)
    /\ d.media = c.media /\ d.uri = c.uri
    /\ d.state \in {c.state, "Stopped"}
    /\ \/ d.target = c.target
       \/ d.state = "Playing" /\ d.target = "playing"
       \/ d.target = "paused" /\ (d.state = "Stopped" \/ c.uri \in Buffered)
       \/ d.target = "null" /\ d.state = "Stopped"
    /\ c.state # "Stopped" /\ d.state = "Stopped" => d.target # "playing" /\ Fresh(d)
    /\ c.state = "Stopped" /\ c.pendingSeek = "none" /\ Fresh(c) => Fresh(d)

LEMMA SeekableFacts ==
    ASSUME NEW c, Piped(c), NEW d, d = Control!Seekable(c)
    PROVE  /\ Told(d, c)
           /\ d.state = c.state /\ d.target = c.target /\ d.session = c.session
           /\ d.at = c.at /\ d.bus = c.bus
<1>1. c \in Control!Control
  BY DEF Piped
<1>2. PICK s \in Control!Control : s = [c EXCEPT !.seekable = TRUE]
  BY <1>1 DEF Control!Control
<1>3. /\ SameMedia(s, c) /\ SamePipe(s, c) /\ s.state = c.state /\ s.status = c.status
  BY <1>1, <1>2 DEF Control!Control, SameMedia, SamePipe
<1>4. Piped(s)
  BY <1>3 DEF Piped, Quiet, Levels, Refused, SameMedia, SamePipe
<1>5. CASE ~c.seekable /\ c.pendingSeek # "none"
  <2>1. d = Control!setPosition(s, c.pendingSeek)
    BY <1>2, <1>5 DEF Control!Seekable
  <2>2. c.pendingSeek \in Control!Place
    BY <1>1, <1>5 DEF Control!Control
  <2>3. /\ Piped(d)
        /\ d.media = s.media /\ d.uri = s.uri /\ d.state = s.state
        /\ d.target = s.target /\ d.at = s.at /\ d.bus = s.bus /\ d.session = s.session
    BY <1>4, <2>1, <2>2, SetPositionFacts
  <2> QED
    BY <1>3, <1>5, <2>3 DEF Told, SameMedia, SamePipe
<1>6. CASE ~(~c.seekable /\ c.pendingSeek # "none")
  <2>1. d = s
    BY <1>2, <1>6 DEF Control!Seekable
  <2> QED
    BY <1>3, <1>4, <2>1 DEF Told, SameMedia, SamePipe, Fresh
<1> QED
  BY <1>5, <1>6

\* The session tells of its state: it is not stopped here.
LEMMA SessionIsFacts ==
    ASSUME NEW c, Piped(c), c.target # "null", NEW s \in {"Paused", "Playing"},
           NEW d, d = Control!updateSessionState([c EXCEPT !.session = s], s)
    PROVE  /\ Told(d, c) /\ SameMedia(d, c) /\ SameEnd(d, c) /\ d.state = c.state
           /\ d.target = c.target /\ d.at = c.at /\ d.place = c.place /\ d.bus = c.bus
<1>1. c \in Control!Control
  BY DEF Piped
<1>2. PICK b \in Control!Control : b = [c EXCEPT !.session = s]
  BY <1>1 DEF Control!Control, Control!State
<1>3. d = Control!updateMediaStatus(b)
  BY <1>2 DEF Control!updateSessionState
<1>4. /\ SameMedia(b, c) /\ SameEnd(b, c) /\ b.state = c.state /\ b.target = c.target
      /\ b.at = c.at /\ b.place = c.place /\ b.bus = c.bus
  BY <1>1, <1>2 DEF Control!Control, SameMedia, SameEnd
<1>5. /\ d \in Control!Control
      /\ d.state = b.state /\ SameMedia(d, b) /\ SamePipe(d, b) /\ SameEnd(d, b)
  BY <1>3, StatusFacts
<1>6. Piped(d)
  BY <1>4, <1>5 DEF Piped, Quiet, Levels, Refused, SameMedia, SamePipe
<1> QED
  BY <1>4, <1>5, <1>6 DEF Told, SameMedia, SamePipe, SameEnd, Fresh

LEMMA EndReachedFacts ==
    ASSUME NEW c, Piped(c), NEW d, d = Control!EndReached(c)
    PROVE  Told(d, c)
<1>1. c \in Control!Control
  BY DEF Piped
<1>2. PICK b \in Control!Control : b = [c EXCEPT !.status = "EndOfMedia"]
  BY <1>1 DEF Control!Control, Control!Status
<1>3. SameMedia(b, c) /\ SamePipe(b, c) /\ b.state = c.state /\ b.status = "EndOfMedia"
  BY <1>1, <1>2 DEF Control!Control, SameMedia, SamePipe
<1>4. Piped(b)
  BY <1>3 DEF Piped, Quiet, Levels, Refused, SameMedia, SamePipe
<1>5. d = Control!stop(b)
  BY <1>2 DEF Control!EndReached
<1>6. /\ Piped(d)
      /\ d.media = b.media /\ d.uri = b.uri /\ d.pendingSeek = b.pendingSeek
      /\ d.state = "Stopped"
      /\ d = b \/ (d.target # "playing" /\ Fresh(d))
  BY <1>4, <1>5, StopFacts
<1>7. d.target \in {"null", "paused", "playing"}
  BY <1>6 DEF Piped, Control!Control
<1>8. CASE d = b
  BY <1>3, <1>6, <1>8 DEF Told, SameMedia, SamePipe, Fresh
<1>9. CASE d.target # "playing" /\ Fresh(d)
  BY <1>3, <1>6, <1>7, <1>9 DEF Told, SameMedia
<1> QED
  BY <1>6, <1>8, <1>9

LEMMA BufferFacts ==
    ASSUME NEW c, Piped(c), NEW level \in {"low", "full"}, c.uri \in Buffered,
           NEW d, d = Control!setBufferProgress(c, level)
    PROVE  Told(d, c)
<1>1. c \in Control!Control
  BY DEF Piped
<1>2. PICK b \in Control!Control : b = [c EXCEPT !.buffer = level]
  BY <1>1 DEF Control!Control
<1>3. SameMedia(b, c) /\ SamePipe(b, c) /\ b.state = c.state /\ b.status = c.status
  BY <1>1, <1>2 DEF Control!Control, SameMedia, SamePipe
<1>4. Piped(b)
  BY <1>3 DEF Piped, Quiet, Levels, Refused, SameMedia, SamePipe
<1>5. ASSUME NEW e, Told(e, c), SameMedia(e, c), NEW f, f = Control!updateMediaStatus(e)
      PROVE  Told(f, c)
  <2>1. /\ f \in Control!Control
        /\ f.state = e.state /\ SameMedia(f, e) /\ SamePipe(f, e) /\ SameEnd(f, e)
    BY <1>5, StatusFacts DEF Told, Piped
  <2>2. Piped(f)
    BY <1>5, <2>1 DEF Told, Piped, Quiet, Levels, Refused, SameMedia, SamePipe
  <2>3. Fresh(e) <=> Fresh(f)
    BY <2>1 DEF Fresh, SameEnd, SameMedia, SamePipe
  <2> QED
    BY <1>5, <2>1, <2>2, <2>3 DEF Told, SameMedia, SamePipe
<1>6. Told(b, c) /\ SameMedia(b, c)
  BY <1>3, <1>4 DEF Told, SameMedia, SamePipe, Fresh
<1>7. ASSUME NEW to \in {"paused", "playing"}, NEW e, e = Control!Ask(b, to),
             to = "playing" => c.state = "Playing"
      PROVE  Told(e, c) /\ SameMedia(e, c)
  <2>1. /\ e \in Control!Control /\ Piped(e)
        /\ SameMedia(e, b) /\ SameEnd(e, b) /\ e.at = b.at /\ e.place = b.place
        /\ Control!Starts(b) => e.state = b.state /\ e.target = to
        /\ ~Control!Starts(b) => e.state = "Stopped" /\ e.target = "null"
    BY <1>4, <1>7, AskFacts, AskPiped DEF Piped
  <2>2. SameMedia(e, c) /\ SameEnd(e, c) /\ e.at = c.at /\ e.place = c.place
    BY <1>3, <2>1 DEF SameMedia, SamePipe, SameEnd
  <2>3. CASE Control!Starts(b)
    BY <1>3, <1>7, <2>1, <2>2, <2>3 DEF Told, SameMedia, SameEnd, Fresh
  <2>4. CASE ~Control!Starts(b)
    <3>1. e.at = "null" /\ e.place = "start" /\ e.state = "Stopped" /\ e.target = "null"
      BY <2>1, <2>4 DEF Piped, Quiet
    <3> QED
      BY <1>3, <2>1, <2>2, <3>1 DEF Told, SameMedia, SameEnd, Fresh
  <2> QED
    BY <2>2, <2>3, <2>4
<1>8. CASE c.buffer = level \/ c.status = "NoMedia"
  <2>1. d = c
    BY <1>8 DEF Control!setBufferProgress
  <2> QED
    BY <2>1 DEF Told
<1>9. CASE ~(c.buffer = level \/ c.status = "NoMedia")
  <2>1. CASE level = "full" /\ c.state = "Playing" /\ c.session # "Playing"
    <3>1. PICK e : e = Control!Ask(b, "playing")
      OBVIOUS
    <3>2. d = Control!updateMediaStatus(e)
      BY <1>2, <1>9, <2>1, <3>1 DEF Control!setBufferProgress
    <3> QED
      BY <1>5, <1>7, <2>1, <3>1, <3>2
  <2>2. CASE /\ ~(level = "full" /\ c.state = "Playing" /\ c.session # "Playing")
             /\ level = "low" /\ c.session = "Playing"
    <3>1. PICK e : e = Control!Ask(b, "paused")
      OBVIOUS
    <3>2. d = Control!updateMediaStatus(e)
      BY <1>2, <1>9, <2>2, <3>1 DEF Control!setBufferProgress
    <3> QED
      BY <1>5, <1>7, <3>1, <3>2
  <2>3. CASE /\ ~(level = "full" /\ c.state = "Playing" /\ c.session # "Playing")
             /\ ~(level = "low" /\ c.session = "Playing")
    <3>1. d = Control!updateMediaStatus(b)
      BY <1>2, <1>9, <2>3 DEF Control!setBufferProgress
    <3> QED
      BY <1>5, <1>6, <3>1
  <2> QED
    BY <2>1, <2>2, <2>3
<1> QED
  BY <1>8, <1>9

LEMMA HandleFacts ==
    ASSUME NEW c, Piped(c), c.target # "null",
           NEW message \in Control!Message \ {"error"},
           message \in {"low", "full"} => c.uri \in Buffered,
           NEW d, d = Control!Handle(c, message)
    PROVE  Told(d, c)
<1>1. c \in Control!Control
  BY DEF Piped
<1>2. CASE message = "prerolled" /\ c.session = "Paused"
  <2>1. d = Control!Seekable(c)
    BY <1>2 DEF Control!Handle
  <2> QED
    BY <2>1, SeekableFacts
<1>3. CASE message = "prerolled" /\ c.session # "Paused"
  <2>1. PICK b \in Control!Control : b = [c EXCEPT !.session = "Paused"]
    BY <1>1 DEF Control!Control, Control!State
  <2>2. /\ SameMedia(b, c) /\ b.state = c.state /\ b.status = c.status /\ b.target = c.target
        /\ b.at = c.at /\ b.place = c.place /\ b.bus = c.bus
    BY <1>1, <2>1 DEF Control!Control, SameMedia
  <2>3. Piped(b)
    BY <2>2 DEF Piped, Quiet, Levels, Refused, SameMedia
  <2>4. PICK e : e = Control!Seekable(b)
    OBVIOUS
  <2>5. /\ Told(e, b) /\ e.state = b.state /\ e.target = b.target
    BY <2>3, <2>4, SeekableFacts
  <2>6. d = Control!updateSessionState(e, "Paused")
    BY <1>3, <2>1, <2>4 DEF Control!Handle
  <2>7. d = Control!updateMediaStatus(e) /\ e \in Control!Control /\ Piped(e)
    BY <2>5, <2>6 DEF Control!updateSessionState, Told, Piped
  <2>8. /\ d \in Control!Control
        /\ d.state = e.state /\ SameMedia(d, e) /\ SamePipe(d, e) /\ SameEnd(d, e)
    BY <2>7, StatusFacts
  <2>9. Piped(d)
    BY <2>7, <2>8 DEF Piped, Quiet, Levels, Refused, SameMedia, SamePipe
  <2>10. (Fresh(e) <=> Fresh(d)) /\ (Fresh(b) <=> Fresh(c))
    BY <2>2, <2>8 DEF Fresh, SameEnd, SameMedia, SamePipe
  <2> QED
    BY <2>2, <2>5, <2>8, <2>9, <2>10 DEF Told, SameMedia, SamePipe
<1>4. ASSUME NEW s \in {"Paused", "Playing"}, d = Control!SessionIs(c, s)
      PROVE  Told(d, c)
  <2>1. CASE c.session = s
    <3>1. d = c
      BY <1>4, <2>1 DEF Control!SessionIs
    <3> QED
      BY <3>1 DEF Told
  <2>2. CASE c.session # s
    <3>1. d = Control!updateSessionState([c EXCEPT !.session = s], s)
      BY <1>4, <2>2 DEF Control!SessionIs
    <3> QED
      BY <3>1, SessionIsFacts
  <2> QED
    BY <2>1, <2>2
<1>5. CASE message = "paused"
  BY <1>4, <1>5 DEF Control!Handle
<1>6. CASE message = "playing"
  BY <1>4, <1>6 DEF Control!Handle
<1>7. CASE message = "eos"
  <2>1. d = Control!EndReached(c)
    BY <1>7 DEF Control!Handle
  <2> QED
    BY <2>1, EndReachedFacts
<1>8. CASE message \in {"low", "full"}
  <2>1. d = Control!setBufferProgress(c, message)
    BY <1>8 DEF Control!Handle
  <2> QED
    BY <1>8, <2>1, BufferFacts
<1> QED
  BY <1>2, <1>3, <1>5, <1>6, <1>7, <1>8 DEF Control!Message

(***************************************************************************)
(* III.  The player, between the playlist and the control.                 *)
(***************************************************************************)

Does(tasks, what) == \E k \in 1 .. Len(tasks) : tasks[k].do = what

\* A change of state is heard first, and what follows a call of next() comes after
\* what this call has announced.
Ordered(tasks) ==
    \A k \in 2 .. Len(tasks) :
        /\ tasks[k].do # "stateChanged"
        /\ tasks[k].do = "advanced" => tasks[k - 1].do \in {"activated", "update"}

\* The playlist announces an item, and its position before that, if it is another.
Announces(rest) ==
    /\ inSlot' = FALSE
    /\ \E n \in 1 .. 2 :
          /\ Len(agenda') = n + Len(rest)
          /\ \A k \in 1 .. n :
                agenda'[k].do = IF k = n THEN "activated" ELSE "currentIndexChanged"
          /\ \A k \in 1 .. Len(rest) : agenda'[n + k] = rest[k]

LEMMA AnnouncesFacts ==
    ASSUME NEW T, NEW rest \in Seq(T), agenda' \in Seq(T), Announces(rest)
    PROVE  /\ agenda' # <<>> /\ agenda'[1].do \in {"activated", "currentIndexChanged"}
           /\ HasItem(agenda') /\ inSlot' = FALSE
           /\ \A what \in {"advanced", "sessionStop"} :
                 Does(agenda', what) <=> Does(rest, what)
           /\ Ordered(rest) /\ (rest # <<>> => rest[1].do # "stateChanged")
                 => Ordered(agenda')
<1>1. PICK n \in 1 .. 2 :
          /\ Len(agenda') = n + Len(rest)
          /\ \A k \in 1 .. n :
                agenda'[k].do = IF k = n THEN "activated" ELSE "currentIndexChanged"
          /\ \A k \in 1 .. Len(rest) : agenda'[n + k] = rest[k]
  BY DEF Announces
<1>2. PICK new \in Seq(T) : new = agenda'
  OBVIOUS
<1>3. /\ Len(new) = n + Len(rest) /\ Len(rest) \in Nat /\ n \in {1, 2}
      /\ \A k \in 1 .. n :
            new[k].do = IF k = n THEN "activated" ELSE "currentIndexChanged"
      /\ \A k \in 1 .. Len(rest) : new[n + k] = rest[k]
  BY <1>1, <1>2
<1>4. \A k \in 1 .. Len(new) : k \in 1 .. n \/ (k - n \in 1 .. Len(rest) /\ new[k] = rest[k - n])
  BY <1>3
<1>5. new # <<>> /\ new[1].do \in {"activated", "currentIndexChanged"}
  BY <1>3
<1>6. HasItem(new)
  <2>1. n \in 1 .. n /\ n \in 1 .. Len(new)
    BY <1>3
  <2>2. new[n].do = "activated"
    BY <1>3, <2>1
  <2> QED
    BY <2>1, <2>2 DEF HasItem
<1>7. ASSUME NEW what \in {"advanced", "sessionStop"}
      PROVE  Does(new, what) <=> Does(rest, what)
  <2>1. ASSUME NEW k \in 1 .. Len(new), new[k].do = what PROVE Does(rest, what)
    <3>1. k \notin 1 .. n
      BY <1>3, <2>1
    <3> QED
      BY <1>4, <2>1, <3>1 DEF Does
  <2>2. ASSUME NEW k \in 1 .. Len(rest), rest[k].do = what PROVE Does(new, what)
    <3>1. n + k \in 1 .. Len(new) /\ new[n + k].do = what
      BY <1>3, <2>2
    <3> QED
      BY <3>1 DEF Does
  <2> QED
    BY <2>1, <2>2 DEF Does
<1>8. ASSUME Ordered(rest), rest # <<>> => rest[1].do # "stateChanged"
      PROVE  Ordered(new)
  <2> SUFFICES ASSUME NEW k \in 2 .. Len(new)
               PROVE  /\ new[k].do # "stateChanged"
                      /\ new[k].do = "advanced" => new[k - 1].do \in {"activated", "update"}
    BY DEF Ordered
  <2>1. CASE k <= n
    BY <1>3, <2>1
  <2>2. CASE k = n + 1
    <3>1. new[k] = rest[1] /\ new[k - 1].do = "activated" /\ rest # <<>>
      BY <1>3, <2>2
    <3> QED
      BY <1>8, <3>1
  <2>3. CASE k > n + 1
    <3>1. k - n \in 2 .. Len(rest) /\ new[k] = rest[k - n] /\ new[k - 1] = rest[(k - n) - 1]
      <4>1. k \in 1 .. Len(new) /\ k - 1 \in 1 .. Len(new)
            /\ k - n \in 2 .. Len(rest) /\ (k - 1) - n = (k - n) - 1
        BY <1>3, <2>3
      <4> QED
        BY <1>3, <1>4, <2>3, <4>1
    <3> QED
      BY <1>8, <3>1 DEF Ordered
  <2> QED
    BY <1>3, <2>1, <2>2, <2>3
<1> QED
  BY <1>2, <1>5, <1>6, <1>7, <1>8 DEF Announces

LEMMA SignalsAnnounce ==
    ASSUME NEW T, NEW rest \in Seq(T), NEW pos, NEW old, Emit(Signals(pos, old), rest)
    PROVE  Announces(rest)
<1> DEFINE S == T \cup {IndexChanged(pos), Activated}
<1>1. PICK one \in S : one = Activated /\ one.do = "activated"
  <2>1. Activated.do = "activated"
    BY DEF Activated
  <2> QED
    BY <2>1
<1>2. PICK two \in S : two = IndexChanged(pos) /\ two.do = "currentIndexChanged"
  <2>1. IndexChanged(pos).do = "currentIndexChanged"
    BY DEF IndexChanged
  <2> QED
    BY <2>1
<1>3. rest \in Seq(S)
  BY WiderSeq
<1> HIDE DEF S
<1>4. inSlot' = FALSE /\ agenda' = Signals(pos, old) \o rest
  BY DEF Emit
<1>5. CASE pos # old
  <2>1. PICK s \in Seq(S) : s = <<two, one>> /\ Len(s) = 2 /\ s[1] = two /\ s[2] = one
    <3>1. <<two, one>> \in Seq(S)
      OBVIOUS
    <3> QED
      BY <3>1
  <2>2. agenda' = s \o rest
    BY <1>1, <1>2, <1>4, <1>5, <2>1 DEF Signals
  <2>3. /\ Len(s \o rest) = Len(s) + Len(rest)
        /\ \A k \in 1 .. Len(s) + Len(rest) :
              (s \o rest)[k] = IF k <= Len(s) THEN s[k] ELSE rest[k - Len(s)]
    BY <1>3, ConcatProperties
  <2>4. /\ Len(agenda') = 2 + Len(rest) /\ agenda'[1] = two /\ agenda'[2] = one
        /\ \A k \in 1 .. Len(rest) : agenda'[2 + k] = rest[k]
    BY <1>3, <2>1, <2>2, <2>3
  <2> QED
    BY <1>1, <1>2, <1>4, <2>4 DEF Announces
<1>6. CASE pos = old
  <2>1. PICK s \in Seq(S) : s = <<one>> /\ Len(s) = 1 /\ s[1] = one
    <3>1. <<one>> \in Seq(S)
      OBVIOUS
    <3> QED
      BY <3>1
  <2>2. agenda' = s \o rest
    BY <1>1, <1>4, <1>6, <2>1 DEF Signals
  <2>3. /\ Len(s \o rest) = Len(s) + Len(rest)
        /\ \A k \in 1 .. Len(s) + Len(rest) :
              (s \o rest)[k] = IF k <= Len(s) THEN s[k] ELSE rest[k - Len(s)]
    BY <1>3, ConcatProperties
  <2>4. /\ Len(agenda') = 1 + Len(rest) /\ agenda'[1] = one
        /\ \A k \in 1 .. Len(rest) : agenda'[1 + k] = rest[k]
    BY <1>3, <2>1, <2>2, <2>3
  <2> QED
    BY <1>1, <1>4, <2>4 DEF Announces
<1> QED
  BY <1>5, <1>6

LEMMA CopyAnnounces ==
    ASSUME NEW T, NEW rest \in Seq(T), NEW m, Emit(<<ActivatedCopy(m)>>, rest)
    PROVE  Announces(rest)
<1> DEFINE S == T \cup {ActivatedCopy(m)}
<1>1. PICK one \in S : one = ActivatedCopy(m) /\ one.do = "activated"
  BY DEF ActivatedCopy
<1>2. rest \in Seq(S)
  BY WiderSeq
<1> HIDE DEF S
<1>3. PICK s \in Seq(S) : s = <<one>> /\ Len(s) = 1 /\ s[1] = one
  <2>1. <<one>> \in Seq(S)
    OBVIOUS
  <2> QED
    BY <2>1
<1>4. inSlot' = FALSE /\ agenda' = s \o rest
  BY <1>1, <1>3 DEF Emit
<1>5. /\ Len(s \o rest) = Len(s) + Len(rest)
      /\ \A k \in 1 .. Len(s) + Len(rest) :
            (s \o rest)[k] = IF k <= Len(s) THEN s[k] ELSE rest[k - Len(s)]
  BY <1>2, ConcatProperties
<1>6. /\ Len(agenda') = 1 + Len(rest) /\ agenda'[1] = one
      /\ \A k \in 1 .. Len(rest) : agenda'[1 + k] = rest[k]
  BY <1>2, <1>3, <1>4, <1>5
<1> QED
  BY <1>1, <1>4, <1>6 DEF Announces

\* Nothing is announced, or what is, comes before the rest.
Emits(rest) ==
    \/ UNCHANGED listeners
    \/ Announces(rest) /\ UNCHANGED heardMedia

LEMMA JumpEmits ==
    ASSUME NEW T, NEW rest \in Seq(T), NEW p, NEW list, NEW old, NEW h,
           Jump(p, list, old, h, rest)
    PROVE  Emits(rest)
<1>1. \/ UNCHANGED listeners
      \/ Emit(Signals(PositionIn(p, list), old), rest)
  BY DEF Jump, listeners
<1>2. PICK pos : pos = PositionIn(p, list)
  OBVIOUS
<1>3. ASSUME Emit(Signals(pos, old), rest) PROVE Announces(rest) /\ UNCHANGED heardMedia
  BY <1>3, SignalsAnnounce DEF Emit
<1> QED
  BY <1>1, <1>2, <1>3 DEF Emits

LEMMA CallsEmit ==
    ASSUME NEW T, agenda \in Seq(T), Calls
    PROVE  MayCall /\ Emits(agenda)
<1>1. ASSUME NEW answers, NEW by, Move(answers, by, agenda) PROVE Emits(agenda)
  BY <1>1, JumpEmits DEF Move
<1>2. CASE next
  BY <1>1, <1>2 DEF next
<1>3. CASE previous
  BY <1>1, <1>3 DEF previous
<1>4. CASE shuffle
  <2>1. PICK list : resources' = list /\ MediaChanged(list)
    BY <1>4 DEF shuffle
  <2>2. PICK m : m = list[currentPos + 1]
    OBVIOUS
  <2>3. Emit(<<ActivatedCopy(m)>>, agenda) \/ UNCHANGED listeners
    BY <2>1, <2>2 DEF MediaChanged, Silent
  <2>4. ASSUME Emit(<<ActivatedCopy(m)>>, agenda) PROVE Announces(agenda) /\ UNCHANGED heardMedia
    BY <2>4, CopyAnnounces DEF Emit
  <2> QED
    BY <1>4, <2>3, <2>4 DEF Emits, shuffle
<1>5. ASSUME NEW p \in Position \cup {MaxItems}, setCurrentIndex(p) PROVE MayCall /\ Emits(agenda)
  BY <1>5, JumpEmits DEF setCurrentIndex
<1>6. ASSUME NEW steps \in 1 .. MaxSteps, nextIndex(steps) \/ previousIndex(steps)
      PROVE  MayCall /\ Emits(agenda)
  BY <1>6 DEF nextIndex, previousIndex, Ask, Emits
<1>7. ASSUME NEW mode \in Modes, setPlaybackMode(mode) PROVE MayCall /\ Emits(agenda)
  BY <1>7 DEF setPlaybackMode, Emits
<1>8. ASSUME NEW pos \in 0 .. Count,
             NEW items \in {<<m>> : m \in Media} \cup (Media \X Media),
             insertMedia(pos, items)
      PROVE  MayCall /\ Emits(agenda)
  <2>1. PICK list : list = resources' /\ MediaInserted(list, pos, pos + Len(items) - 1)
    BY <1>8 DEF insertMedia
  <2> QED
    BY <1>8, <2>1, JumpEmits DEF MediaInserted, Silent, Emits, insertMedia
<1>9. ASSUME NEW end \in 0 .. Count - 1, NEW start \in 0 .. end, removeMedia(start, end)
      PROVE  MayCall /\ Emits(agenda)
  <2>1. PICK list : list = resources' /\ MediaRemoved(list, start, end)
    BY <1>9 DEF removeMedia
  <2> QED
    BY <1>9, <2>1, JumpEmits DEF MediaRemoved, Silent, Emits, removeMedia
<1> QED
  BY <1>2, <1>3, <1>4, <1>5, <1>6, <1>7, <1>8, <1>9 DEF Calls, next, previous

\* What is left when the first task is done.
LEMMA TailFacts ==
    ASSUME NEW T, NEW tasks \in Seq(T), tasks # <<>>, NEW rest, rest = Tail(tasks)
    PROVE  /\ rest \in Seq(T) /\ Len(rest) = Len(tasks) - 1 /\ Len(tasks) \in Nat \ {0}
           /\ \A k \in 1 .. Len(rest) : rest[k] = tasks[k + 1]
           /\ HasItem(tasks) =>
                 tasks[1].do \in {"activated", "update"} \/ HasItem(rest)
           /\ \A what : Does(tasks, what) <=> tasks[1].do = what \/ Does(rest, what)
           /\ Ordered(tasks) =>
                 /\ Ordered(rest)
                 /\ rest # <<>> =>
                       /\ rest[1].do # "stateChanged"
                       /\ rest[1].do = "advanced" => tasks[1].do \in {"activated", "update"}
<1>1. /\ rest \in Seq(T) /\ Len(rest) = Len(tasks) - 1 /\ Len(tasks) \in Nat \ {0}
      /\ \A k \in 1 .. Len(rest) : rest[k] = tasks[k + 1]
  OBVIOUS
<1>2. \A k \in 1 .. Len(tasks) : k = 1 \/ (k - 1 \in 1 .. Len(rest) /\ tasks[k] = rest[k - 1])
  BY <1>1
<1>3. HasItem(tasks) => tasks[1].do \in {"activated", "update"} \/ HasItem(rest)
  BY <1>2 DEF HasItem
<1>4. ASSUME NEW what
      PROVE  Does(tasks, what) <=> tasks[1].do = what \/ Does(rest, what)
  <2>1. ASSUME Does(tasks, what), tasks[1].do # what PROVE Does(rest, what)
    BY <1>2, <2>1 DEF Does
  <2>2. ASSUME Does(rest, what) PROVE Does(tasks, what)
    <3>1. PICK k \in 1 .. Len(rest) : rest[k].do = what
      BY <2>2 DEF Does
    <3>2. k + 1 \in 1 .. Len(tasks) /\ tasks[k + 1].do = what
      BY <1>1, <3>1
    <3> QED
      BY <3>2 DEF Does
  <2>3. 1 \in 1 .. Len(tasks)
    BY <1>1
  <2> QED
    BY <2>1, <2>2, <2>3 DEF Does
<1>5. ASSUME Ordered(tasks)
      PROVE  /\ Ordered(rest)
             /\ rest # <<>> =>
                   /\ rest[1].do # "stateChanged"
                   /\ rest[1].do = "advanced" => tasks[1].do \in {"activated", "update"}
  <2>1. ASSUME NEW k \in 2 .. Len(rest)
        PROVE  /\ rest[k].do # "stateChanged"
               /\ rest[k].do = "advanced" => rest[k - 1].do \in {"activated", "update"}
    <3>1. /\ k + 1 \in 2 .. Len(tasks) /\ rest[k] = tasks[k + 1]
          /\ rest[k - 1] = tasks[k] /\ (k + 1) - 1 = k
      BY <1>1
    <3> QED
      BY <1>5, <3>1 DEF Ordered
  <2>2. ASSUME rest # <<>>
        PROVE  /\ rest[1].do # "stateChanged"
               /\ rest[1].do = "advanced" => tasks[1].do \in {"activated", "update"}
    <3>1. 2 \in 2 .. Len(tasks) /\ rest[1] = tasks[2] /\ 2 - 1 = 1
      BY <1>1, <2>2
    <3> QED
      BY <1>5, <3>1 DEF Ordered
  <2> QED
    BY <2>1, <2>2 DEF Ordered
<1> QED
  BY <1>1, <1>3, <1>4, <1>5

Tasks == NavTask \cup PlayerTask

LEMMA TaskKinds ==
    /\ NavTask \subseteq Tasks
    /\ \A t \in Tasks : t.do \in {"currentIndexChanged", "activated", "update"} => t \in NavTask
    /\ \A s \in Control!State : StateChanged(s) \in Tasks
    /\ \A what \in {"advanced", "play", "sessionStop"} : [do |-> what] \in Tasks
    /\ \A t \in Tasks : t.do = "stateChanged" => t.state \in Control!State
  BY DEF Tasks, PlayerTask, NavTask, StateChanged

\* A task before the rest.
Before(t, rest) == <<t>> \o rest

LEMMA BeforeFacts ==
    ASSUME NEW T, NEW rest \in Seq(T), NEW t \in T, t.do \notin {"activated", "update"},
           NEW tasks, tasks = Before(t, rest)
    PROVE  /\ tasks \in Seq(T) /\ Len(tasks) = Len(rest) + 1 /\ tasks # <<>> /\ tasks[1] = t
           /\ HasItem(rest) => HasItem(tasks)
           /\ HasNoCopy(rest) => HasNoCopy(tasks)
           /\ \A what : Does(tasks, what) <=> t.do = what \/ Does(rest, what)
           /\ Ordered(rest) /\ (rest # <<>> => rest[1].do \notin {"stateChanged", "advanced"})
                 => Ordered(tasks)
<1>1. PICK s \in Seq(T) : s = <<t>> /\ Len(s) = 1 /\ s[1] = t
  <2>1. <<t>> \in Seq(T)
    OBVIOUS
  <2> QED
    BY <2>1
<1>2. /\ s \o rest \in Seq(T) /\ Len(s \o rest) = Len(s) + Len(rest)
      /\ \A k \in 1 .. Len(s) + Len(rest) :
            (s \o rest)[k] = IF k <= Len(s) THEN s[k] ELSE rest[k - Len(s)]
  BY ConcatProperties
<1>3. /\ tasks \in Seq(T) /\ Len(tasks) = Len(rest) + 1 /\ Len(rest) \in Nat
      /\ tasks # <<>> /\ tasks[1] = t
      /\ \A k \in 2 .. Len(rest) + 1 : tasks[k] = rest[k - 1]
  <2>1. tasks = s \o rest
    BY <1>1 DEF Before
  <2>2. /\ tasks \in Seq(T) /\ Len(tasks) = 1 + Len(rest) /\ Len(rest) \in Nat
        /\ \A k \in 1 .. 1 + Len(rest) :
              tasks[k] = IF k <= 1 THEN s[k] ELSE rest[k - 1]
    BY <1>1, <1>2, <2>1
  <2> QED
    BY <1>1, <2>2
<1>4. \A k \in 1 .. Len(rest) : k + 1 \in 2 .. Len(tasks) /\ tasks[k + 1] = rest[k]
  <2> SUFFICES ASSUME NEW k \in 1 .. Len(rest)
               PROVE  k + 1 \in 2 .. Len(tasks) /\ tasks[k + 1] = rest[k]
    OBVIOUS
  <2>1. k + 1 \in 2 .. Len(rest) + 1 /\ (k + 1) - 1 = k
    BY <1>3
  <2> QED
    BY <1>3, <2>1
<1>5. \A k \in 1 .. Len(tasks) : k = 1 \/ (k \in 2 .. Len(rest) + 1 /\ k - 1 \in 1 .. Len(rest))
  BY <1>3
<1>6. HasItem(rest) => HasItem(tasks)
  <2> SUFFICES ASSUME NEW k \in 1 .. Len(rest), rest[k].do \in {"activated", "update"}
               PROVE  HasItem(tasks)
    BY DEF HasItem
  <2>1. k + 1 \in 1 .. Len(tasks) /\ tasks[k + 1] = rest[k]
    BY <1>3, <1>4
  <2> QED
    BY <2>1 DEF HasItem
<1>7. HasNoCopy(rest) => HasNoCopy(tasks)
  BY <1>3, <1>5 DEF HasNoCopy
<1>8. ASSUME NEW what PROVE Does(tasks, what) <=> t.do = what \/ Does(rest, what)
  <2>1. ASSUME Does(tasks, what), t.do # what PROVE Does(rest, what)
    BY <1>3, <1>5, <2>1 DEF Does
  <2>2. ASSUME Does(rest, what) PROVE Does(tasks, what)
    <3>1. PICK k \in 1 .. Len(rest) : rest[k].do = what
      BY <2>2 DEF Does
    <3>2. k + 1 \in 1 .. Len(tasks) /\ tasks[k + 1].do = what
      BY <1>3, <1>4, <3>1
    <3> QED
      BY <3>2 DEF Does
  <2>3. 1 \in 1 .. Len(tasks)
    BY <1>3
  <2> QED
    BY <1>3, <2>1, <2>2, <2>3 DEF Does
<1>9. ASSUME Ordered(rest), rest # <<>> => rest[1].do \notin {"stateChanged", "advanced"}
      PROVE  Ordered(tasks)
  <2> SUFFICES ASSUME NEW k \in 2 .. Len(tasks)
               PROVE  /\ tasks[k].do # "stateChanged"
                      /\ tasks[k].do = "advanced" => tasks[k - 1].do \in {"activated", "update"}
    BY DEF Ordered
  <2>1. CASE k = 2
    <3>1. tasks[k] = rest[1] /\ rest # <<>>
      BY <1>3, <2>1
    <3> QED
      BY <1>9, <3>1
  <2>2. CASE k > 2
    <3>1. k - 1 \in 2 .. Len(rest) /\ tasks[k] = rest[k - 1] /\ tasks[k - 1] = rest[(k - 1) - 1]
      BY <1>3, <2>2
    <3> QED
      BY <1>9, <3>1 DEF Ordered
  <2> QED
    BY <1>3, <2>1, <2>2
<1> QED
  BY <1>3, <1>6, <1>7, <1>8, <1>9

-----------------------------------------------------------------------------
(* The invariants.                                                         *)

PlayerTypes ==
    /\ NavInv(Tasks)
    /\ Piped(control) /\ Len(control.bus) <= MaxBus
    /\ {state, reported} \subseteq Control!State
    /\ {bound, sought} \subseteq BOOLEAN

\* Nobody calls before the player has heard of a state, which is that of the
\* control still, and has gone on to the next item, with which it knows the state.
AtFront ==
    agenda # <<>> =>
        /\ agenda[1].do \in {"stateChanged", "advanced"} => ~inSlot
        /\ agenda[1].do = "stateChanged" => agenda[1].state = control.state
        /\ agenda[1].do = "advanced" /\ bound => state = control.state

\* The player knows the state of the control, or will ask for it.
Knows ==
    \/ state = control.state
    \/ agenda # <<>> /\ agenda[1].do = "stateChanged"
    \/ Does(agenda, "advanced")

TalkInv == Ordered(agenda) /\ AtFront /\ Knows /\ reported = state

\* The control has the media the player has heard of, or it will hear of others.
Loaded == bound => control.media = heardMedia \/ HasItem(agenda)

\* Who plays, and from where; the error path is still to stop the session if
\* stops holds, and a position is sought if seeks does.
Runs(c, stops, seeks) ==
    /\ c.state = "Playing" =>
          c.target = "playing" \/ c.uri \in Buffered \/ (FailsLate # {} /\ c.target = "null")
    /\ c.state # "Playing" => c.target # "playing" \/ stops
    /\ FailsLate = {} /\ stops => c.state = "Stopped" /\ c.target = "null"
    /\ c.state = "Stopped" /\ ~seeks => Fresh(c) \/ stops
    /\ c.pendingSeek # "none" => seeks

\* If nothing fails late, the error path runs without a slot in between.
RunInv ==
    /\ Runs(control, WillStop, sought)
    /\ FailsLate = {} /\ WillStop =>
          ~inSlot /\ \A k \in 1 .. Len(agenda) : agenda[k].do = "sessionStop"

SoughtStill(d, seeks) == d.pendingSeek # "none" \/ (seeks /\ d.state = "Stopped")

-----------------------------------------------------------------------------
(* The calls of the control keep who plays, and from where.                *)

LEMMA PlayRuns ==
    ASSUME NEW c, Piped(c), NEW stops \in BOOLEAN, NEW seeks \in BOOLEAN,
           Runs(c, stops, seeks), FailsLate = {} => ~stops,
           NEW s \in {"Paused", "Playing"}, NEW d, d = Control!playOrPause(c, s)
    PROVE  Runs(d, stops, SoughtStill(d, seeks))
<1>1. /\ Piped(d) /\ d.uri = c.uri /\ d.pendingSeek = c.pendingSeek
      /\ d = c \/ PlaysAs(d, c, s)
  BY PlayOrPauseFacts
<1>2. CASE d = c
  BY <1>2 DEF Runs, SoughtStill
<1>3. CASE d.state = s /\ d.target = Target(s)
  BY <1>1, <1>3 DEF Runs, SoughtStill, Target
<1>4. CASE d.state = "Stopped" /\ d.target = "null"
  BY <1>1, <1>4 DEF Runs, SoughtStill, Piped, Quiet, Fresh
<1> QED
  BY <1>1, <1>2, <1>3, <1>4 DEF PlaysAs

LEMMA StopRuns ==
    ASSUME NEW c, Piped(c), NEW stops \in BOOLEAN, NEW seeks \in BOOLEAN,
           Runs(c, stops, seeks), FailsLate = {} => ~stops,
           NEW d, d = Control!stop(c)
    PROVE  Runs(d, stops, SoughtStill(d, seeks))
<1>1. /\ Piped(d) /\ d.uri = c.uri /\ d.pendingSeek = c.pendingSeek
      /\ d.state = "Stopped"
      /\ d = c \/ (d.target # "playing" /\ Fresh(d))
  BY StopFacts
<1>2. CASE d = c
  BY <1>2 DEF Runs, SoughtStill
<1>3. CASE d.target # "playing" /\ Fresh(d)
  BY <1>1, <1>3 DEF Runs, SoughtStill
<1> QED
  BY <1>1, <1>2, <1>3

LEMMA SetMediaRuns ==
    ASSUME NEW c \in Control!Control, NEW m \in Media \cup {NoContent},
           NEW stops \in BOOLEAN, FailsLate = {} => ~stops,
           NEW d, d = Control!setMedia(c, m)
    PROVE  Runs(d, stops, FALSE)
<1>1. /\ d.state = "Stopped" /\ d.pendingSeek = "none"
      /\ d.target # "playing" /\ d.at = "null" /\ d.place = "start"
  BY SetMediaFacts
<1> QED
  BY <1>1 DEF Runs, Fresh

LEMMA SetPositionRuns ==
    ASSUME NEW c, Piped(c), NEW stops \in BOOLEAN, NEW seeks \in BOOLEAN,
           Runs(c, stops, seeks), NEW place \in Control!Place,
           NEW d, d = Control!setPosition(c, place)
    PROVE  Runs(d, stops, TRUE)
<1>1. d.uri = c.uri /\ d.state = c.state /\ d.target = c.target
  BY SetPositionFacts
<1> QED
  BY <1>1 DEF Runs

LEMMA SessionStopRuns ==
    ASSUME NEW c, Piped(c), NEW seeks \in BOOLEAN, NEW stops \in BOOLEAN,
           Runs(c, TRUE, seeks), NEW d, d = Control!sessionStop(c)
    PROVE  Runs(d, stops, SoughtStill(d, seeks)) /\ (FailsLate = {} => d.state = c.state)
<1>1. /\ SameMedia(d, c)
      /\ d.target = "null" /\ d.at = "null" /\ d.place = "start"
      /\ d.state \in {c.state, "Stopped"}
  BY SessionStopFacts DEF Piped
<1> QED
  BY <1>1 DEF Runs, SoughtStill, SameMedia, Fresh

LEMMA InvalidFacts ==
    ASSUME NEW c, Piped(c), NEW d, d = Control!handleInvalidMedia(c)
    PROVE  /\ Piped(d) /\ d.state = "Stopped" /\ d.media = c.media
           /\ SameMedia(d, c) /\ SamePipe(d, c)
<1>1. c \in Control!Control
  BY DEF Piped
<1>2. /\ d \in Control!Control /\ d.state = "Stopped" /\ SameMedia(d, c) /\ SamePipe(d, c)
  BY <1>1 DEF Control!handleInvalidMedia, Control!Control, Control!State, Control!Status,
              SameMedia, SamePipe
<1>3. Piped(d)
  BY <1>2 DEF Piped, Quiet, Levels, Refused, SameMedia, SamePipe
<1> QED
  BY <1>2, <1>3 DEF SameMedia

LEMMA InvalidRuns ==
    ASSUME NEW c, Piped(c), NEW seeks \in BOOLEAN, Runs(c, FALSE, seeks),
           FailsLate = {} => c.target = "null",
           NEW d, d = Control!handleInvalidMedia(c)
    PROVE  Runs(d, TRUE, SoughtStill(d, seeks))
<1>1. d.state = "Stopped" /\ SameMedia(d, c) /\ SamePipe(d, c)
  BY InvalidFacts
<1> QED
  BY <1>1 DEF Runs, SoughtStill, SameMedia, SamePipe

LEMMA HandleRuns ==
    ASSUME NEW c, NEW seeks \in BOOLEAN, Runs(c, FALSE, seeks), NEW d, Told(d, c)
    PROVE  Runs(d, FALSE, SoughtStill(d, seeks))
<1>1. CASE c.state = "Stopped"
  BY <1>1 DEF Runs, SoughtStill, Told
<1>2. CASE c.state # "Stopped"
  BY <1>2 DEF Runs, SoughtStill, Told
<1> QED
  BY <1>1, <1>2

\* A message is taken from the bus.
LEMMA TakenFacts ==
    ASSUME NEW c, Piped(c), c.bus # <<>>, NEW t, t = [c EXCEPT !.bus = Tail(@)]
    PROVE  /\ Piped(t) /\ SameMedia(t, c) /\ t.state = c.state /\ t.status = c.status
           /\ t.target = c.target /\ t.at = c.at /\ t.place = c.place
           /\ t.bus = Tail(c.bus)
           /\ c.bus[1] \in Control!Message
           /\ c.bus[1] # "error" => c.target # "null"
           /\ c.bus[1] \in {"low", "full"} => c.uri \in Buffered
           /\ c.bus[1] = "error" /\ FailsLate = {} => c.target = "null" /\ c.state = "Stopped"
<1>1. c \in Control!Control /\ c.bus \in Seq(Control!Message)
  BY DEF Piped, Control!Control
<1>2. PICK bus \in Seq(Control!Message) :
          /\ bus = Tail(c.bus) /\ Len(bus) = Len(c.bus) - 1
          /\ \A k \in 1 .. Len(bus) : k + 1 \in 1 .. Len(c.bus) /\ bus[k] = c.bus[k + 1]
  <2>1. /\ Tail(c.bus) \in Seq(Control!Message) /\ Len(Tail(c.bus)) = Len(c.bus) - 1
        /\ \A k \in 1 .. Len(Tail(c.bus)) :
              k + 1 \in 1 .. Len(c.bus) /\ Tail(c.bus)[k] = c.bus[k + 1]
    BY <1>1
  <2> QED
    BY <2>1
<1>3. 1 \in 1 .. Len(c.bus) /\ c.bus[1] \in Control!Message
  BY <1>1
<1>4. /\ t \in Control!Control /\ t.bus = bus
      /\ SameMedia(t, c) /\ t.state = c.state /\ t.status = c.status
      /\ t.target = c.target /\ t.at = c.at /\ t.place = c.place /\ t.session = c.session
  <2>1. t = [c EXCEPT !.bus = bus]
    BY <1>1, <1>2 DEF Control!Control
  <2> QED
    BY <1>1, <2>1 DEF Control!Control, SameMedia
<1>5. Piped(t)
  BY <1>2, <1>4 DEF Piped, Quiet, Levels, Refused, SameMedia
<1>6. /\ c.bus[1] # "error" => c.target # "null"
      /\ c.bus[1] \in {"low", "full"} => c.uri \in Buffered
      /\ c.bus[1] = "error" /\ FailsLate = {} => c.target = "null" /\ c.state = "Stopped"
  BY <1>3 DEF Piped, Quiet, Levels, Refused
<1> QED
  BY <1>2, <1>3, <1>4, <1>5, <1>6

-----------------------------------------------------------------------------
(* The agenda: what the player and the control do to it.                   *)

\* What may be left to do when the control changes.
Waiting(rest) ==
    /\ rest \in Seq(Tasks) /\ Ordered(rest)
    /\ rest # <<>> => rest[1].do \notin {"stateChanged", "advanced"}
    /\ state = control.state \/ Does(rest, "advanced")
    /\ HasItem(agenda) => HasItem(rest)
    /\ HearInv => HasNoCopy(rest)

LEMMA AgendaType ==
    ASSUME PlayerTypes
    PROVE  /\ Work(Tasks) /\ agenda \in Seq(Tasks) /\ Len(agenda) \in Nat
           /\ agenda # <<>> => 1 \in 1 .. Len(agenda)
           /\ control \in Control!Control /\ Piped(control)
           /\ state \in Control!State /\ currentItem \in Media \cup {NoContent}
  BY DEF PlayerTypes, NavInv, ListInv, ListTypeOK, Work, Piped

LEMMA WaitingCall ==
    ASSUME PlayerTypes, TalkInv, MayCall
    PROVE  Waiting(agenda)
<1>1. Work(Tasks) /\ agenda \in Seq(Tasks)
  BY AgendaType
<1>2. agenda # <<>> => agenda[1].do \notin {"stateChanged", "advanced"}
  BY DEF MayCall, TalkInv, AtFront
<1>3. HearInv => HasNoCopy(agenda)
  BY <1>1, NoCopyWaits DEF HearInv
<1> QED
  BY <1>1, <1>2, <1>3 DEF Waiting, TalkInv, Knows

LEMMA WaitingTail ==
    ASSUME PlayerTypes, TalkInv, agenda # <<>>, agenda[1].do \in {"play", "sessionStop"}
    PROVE  Waiting(Tail(agenda))
<1>1. agenda \in Seq(Tasks)
  BY AgendaType
<1>2. PICK rest : rest = Tail(agenda)
  OBVIOUS
<1>3. /\ rest \in Seq(Tasks) /\ Len(rest) = Len(agenda) - 1 /\ Len(agenda) \in Nat \ {0}
      /\ \A k \in 1 .. Len(rest) : rest[k] = agenda[k + 1]
      /\ HasItem(agenda) =>
            agenda[1].do \in {"activated", "update"} \/ HasItem(rest)
      /\ Does(agenda, "advanced") <=> agenda[1].do = "advanced" \/ Does(rest, "advanced")
      /\ Ordered(agenda) =>
            /\ Ordered(rest)
            /\ rest # <<>> =>
                  /\ rest[1].do # "stateChanged"
                  /\ rest[1].do = "advanced" => agenda[1].do \in {"activated", "update"}
  BY <1>1, <1>2, TailFacts
<1>4. HearInv => HasNoCopy(rest)
  <2> SUFFICES ASSUME HearInv, NEW k \in 1 .. Len(rest), rest[k].do \in {"activated", "update"}
               PROVE  rest[k].copy = <<>>
    BY DEF HasNoCopy
  <2>1. k + 1 \in 1 .. Len(agenda) /\ k + 1 # 1 /\ rest[k] = agenda[k + 1]
    BY <1>3
  <2> QED
    BY <2>1 DEF HearInv, CopyIsCurrent
<1>5. Waiting(rest)
  BY <1>3, <1>4 DEF Waiting, TalkInv, Knows
<1> QED
  BY <1>2, <1>5

LEMMA WaitingNone ==
    ASSUME PlayerTypes, TalkInv, agenda = <<>>
    PROVE  Waiting(<<>>) /\ state = control.state
<1>1. <<>> \in Seq(Tasks)
  OBVIOUS
<1>2. PICK none \in Seq(Tasks) : none = <<>> /\ Len(none) = 0
  BY <1>1
<1>3. state = control.state /\ ~HasItem(agenda)
  <2>1. \A k \in 1 .. Len(agenda) : FALSE
    OBVIOUS
  <2> QED
    BY <2>1 DEF TalkInv, Knows, Does, HasItem
<1>4. Ordered(none) /\ HasNoCopy(none)
  BY <1>2 DEF Ordered, HasNoCopy
<1>5. Waiting(none)
  BY <1>2, <1>3, <1>4 DEF Waiting
<1> QED
  BY <1>2, <1>3, <1>5

SessionStop == [do |-> "sessionStop"]

LEMMA WaitingStops ==
    ASSUME PlayerTypes, TalkInv, agenda = <<>>
    PROVE  Waiting(<<SessionStop, SessionStop>>)
<1>1. state = control.state /\ ~HasItem(agenda)
  <2>1. \A k \in 1 .. Len(agenda) : FALSE
    OBVIOUS
  <2> QED
    BY <2>1, WaitingNone DEF HasItem
<1>2. SessionStop.do = "sessionStop"
  BY DEF SessionStop
<1>3. PICK t \in Tasks : t = SessionStop /\ t.do = "sessionStop"
  BY <1>2, TaskKinds DEF SessionStop
<1>4. <<t, t>> \in Seq(Tasks)
  OBVIOUS
<1>5. PICK rest \in Seq(Tasks) : rest = <<t, t>> /\ Len(rest) = 2 /\ rest[1] = t /\ rest[2] = t
  BY <1>4
<1>6. Ordered(rest) /\ HasNoCopy(rest)
  BY <1>3, <1>5 DEF Ordered, HasNoCopy
<1>7. Waiting(rest)
  BY <1>1, <1>3, <1>5, <1>6 DEF Waiting
<1> QED
  BY <1>3, <1>5, <1>7

\* The control becomes c, and tells of it if its state has changed.
LEMMA ChangesStep ==
    ASSUME PlayerTypes, TalkInv, NEW rest, Waiting(rest),
           NEW c, Piped(c), Changes(c, rest), Len(control'.bus) <= MaxBus,
           UNCHANGED <<state, reported>>, bound' \in BOOLEAN, sought' \in BOOLEAN
    PROVE  /\ PlayerTypes' /\ TalkInv' /\ (HearInv => HearInv')
           /\ \A what \in {"advanced", "sessionStop"} : Does(agenda', what) <=> Does(rest, what)
           /\ HasItem(agenda) => HasItem(agenda')
           /\ control' = c /\ inSlot' = FALSE /\ heardMedia' = heardMedia
           /\ currentItem' = currentItem
           /\ c.state = control.state => agenda' = rest
<1>1. /\ rest \in Seq(Tasks) /\ Ordered(rest)
      /\ rest # <<>> => rest[1].do \notin {"stateChanged", "advanced"}
      /\ state = control.state \/ Does(rest, "advanced")
      /\ HasItem(agenda) => HasItem(rest)
      /\ HearInv => HasNoCopy(rest)
  BY DEF Waiting
<1>2. /\ control' = c /\ inSlot' = FALSE
      /\ UNCHANGED <<navVars, heardMedia, heardIndex, promise>>
      /\ agenda' = (IF c.state = control.state THEN <<>> ELSE <<StateChanged(c.state)>>) \o rest
  BY DEF Changes
<1>3. /\ agenda' \in Seq(Tasks)
      /\ HasItem(rest) => HasItem(agenda')
      /\ HasNoCopy(rest) => HasNoCopy(agenda')
      /\ \A what \in {"advanced", "sessionStop"} : Does(agenda', what) <=> Does(rest, what)
      /\ Ordered(agenda')
      /\ c.state = control.state => agenda' = rest
      /\ c.state # control.state =>
            agenda' # <<>> /\ agenda'[1].do = "stateChanged" /\ agenda'[1].state = c.state
  <2>1. CASE c.state = control.state
    <3>1. agenda' = <<>> \o rest
      BY <1>2, <2>1
    <3>2. agenda' = rest
      BY <1>1, <3>1
    <3> QED
      BY <1>1, <2>1, <3>2
  <2>2. CASE c.state # control.state
    <3>1. StateChanged(c.state).do = "stateChanged" /\ StateChanged(c.state).state = c.state
      BY DEF StateChanged
    <3>2. c.state \in Control!State
      BY DEF Piped, Control!Control
    <3>3. PICK t \in Tasks :
              t = StateChanged(c.state) /\ t.do = "stateChanged" /\ t.state = c.state
      BY <3>1, <3>2, TaskKinds
    <3>4. agenda' = Before(t, rest)
      BY <1>2, <2>2, <3>3 DEF Before
    <3>5. PICK tasks : tasks = Before(t, rest)
      OBVIOUS
    <3>6. /\ tasks \in Seq(Tasks) /\ tasks # <<>> /\ tasks[1] = t
          /\ HasItem(rest) => HasItem(tasks)
          /\ HasNoCopy(rest) => HasNoCopy(tasks)
          /\ \A what : Does(tasks, what) <=> t.do = what \/ Does(rest, what)
          /\ Ordered(tasks)
      BY <1>1, <3>3, <3>5, BeforeFacts
    <3> QED
      BY <2>2, <3>3, <3>4, <3>5, <3>6
  <2> QED
    BY <2>1, <2>2
<1>4. NavInv(Tasks)'
  BY <1>2, <1>3
     DEF PlayerTypes, NavInv, ListInv, Work, ListTypeOK, CurrentIsItem, HistoryShape,
         itemAt, Count, navVars
<1>5. PlayerTypes'
  BY <1>2, <1>4 DEF PlayerTypes
<1>6. TalkInv'
  <2>1. CASE c.state = control.state
    BY <1>1, <1>2, <1>3, <2>1 DEF TalkInv, AtFront, Knows
  <2>2. CASE c.state # control.state
    BY <1>1, <1>2, <1>3, <2>2 DEF TalkInv, AtFront, Knows
  <2> QED
    BY <2>1, <2>2
<1>7. ASSUME HearInv PROVE HearInv'
  <2>1. CopyIsCurrent'
    BY <1>1, <1>3, <1>7 DEF CopyIsCurrent, HasNoCopy
  <2>2. HearsYet'
    <3>1. heardMedia = currentItem \/ HasItem(agenda)
      BY <1>7 DEF HearInv, HearsYet, HasItem
    <3>2. heardMedia' = heardMedia /\ currentItem' = currentItem
      BY <1>2 DEF navVars
    <3> QED
      BY <1>1, <1>3, <3>1, <3>2 DEF HearsYet, HasItem
  <2> QED
    BY <2>1, <2>2 DEF HearInv
<1> QED
  BY <1>1, <1>2, <1>3, <1>5, <1>6, <1>7 DEF navVars

\* The playlist announces something before the rest.
LEMMA AnnounceTalk ==
    ASSUME PlayerTypes, TalkInv, NEW rest \in Seq(Tasks), Ordered(rest),
           rest # <<>> => rest[1].do # "stateChanged",
           state = control.state \/ Does(rest, "advanced"),
           Announces(rest), agenda' \in Seq(Tasks), UNCHANGED playerVars
    PROVE  TalkInv' /\ HasItem(agenda')
<1>1. /\ agenda' # <<>> /\ agenda'[1].do \in {"activated", "currentIndexChanged"}
      /\ HasItem(agenda')
      /\ Does(agenda', "advanced") <=> Does(rest, "advanced")
      /\ Ordered(agenda')
  BY AnnouncesFacts
<1> QED
  BY <1>1 DEF TalkInv, AtFront, Knows, playerVars

-----------------------------------------------------------------------------
(* What every step keeps; the media that is played, if no slot calls the   *)
(* playlist while a changed item is announced.                             *)

Keeping ==
    /\ PlayerTypes' /\ TalkInv'
    /\ SlotsOnChange = FALSE /\ HearInv /\ Loaded => HearInv' /\ Loaded'
    /\ RunInv => RunInv'

LEMMA StopsNow ==
    ASSUME PlayerTypes
    PROVE  /\ WillStop <=> Does(agenda, "sessionStop")
           /\ WillStop => agenda # <<>>
           /\ RunInv /\ FailsLate = {} /\ WillStop => ~MayCall /\ agenda[1].do = "sessionStop"
<1>1. agenda # <<>> => 1 \in 1 .. Len(agenda)
  BY AgendaType
<1>2. WillStop => agenda # <<>>
  <2>1. agenda = <<>> => \A k \in 1 .. Len(agenda) : FALSE
    OBVIOUS
  <2> QED
    BY <2>1 DEF WillStop
<1> QED
  BY <1>1, <1>2 DEF WillStop, Does, RunInv, MayCall

\* The control changes, and nothing is announced.
LEMMA ChangesKeep ==
    ASSUME PlayerTypes, TalkInv, NEW rest, Waiting(rest),
           NEW c, Piped(c), Changes(c, rest), Len(control'.bus) <= MaxBus,
           UNCHANGED <<state, reported>>, bound' \in BOOLEAN,
           NEW seeks \in BOOLEAN, sought' = seeks,
           bound' => (bound /\ c.media = control.media) \/ c.media = currentItem,
           RunInv =>
              /\ Runs(c, Does(rest, "sessionStop"), seeks)
              /\ FailsLate = {} /\ Does(rest, "sessionStop") =>
                    /\ c.state = control.state
                    /\ \A k \in 1 .. Len(rest) : rest[k].do = "sessionStop"
    PROVE  Keeping
<1>1. /\ PlayerTypes' /\ TalkInv' /\ (HearInv => HearInv')
      /\ Does(agenda', "sessionStop") <=> Does(rest, "sessionStop")
      /\ HasItem(agenda) => HasItem(agenda')
      /\ control' = c /\ inSlot' = FALSE /\ heardMedia' = heardMedia
      /\ currentItem' = currentItem
      /\ c.state = control.state => agenda' = rest
  BY ChangesStep
<1>2. ASSUME HearInv, Loaded PROVE Loaded'
  <2>1. heardMedia = currentItem \/ HasItem(agenda)
    BY <1>2 DEF HearInv, HearsYet, HasItem
  <2> QED
    BY <1>1, <1>2, <2>1 DEF Loaded
<1>3. ASSUME RunInv PROVE RunInv'
  <2>1. WillStop' <=> Does(rest, "sessionStop")
    BY <1>1 DEF WillStop, Does
  <2>2. Runs(control', WillStop', sought')
    <3>1. WillStop' \in BOOLEAN /\ Does(rest, "sessionStop") \in BOOLEAN
      BY DEF WillStop, Does
    <3>2. WillStop' = Does(rest, "sessionStop")
      BY <2>1, <3>1
    <3> QED
      BY <1>1, <1>3, <3>2
  <2> QED
    BY <1>1, <1>3, <2>1, <2>2 DEF RunInv
<1> QED
  BY <1>1, <1>2, <1>3 DEF Keeping

\* A step that leaves the control alone.
LEMMA RunSame ==
    ASSUME RunInv, UNCHANGED <<control, sought>>, WillStop' <=> WillStop,
           FailsLate = {} => ~WillStop
    PROVE  RunInv'
  BY DEF RunInv, Runs, Fresh

-----------------------------------------------------------------------------
(* The calls of the player.                                                *)

\* What playing, pausing and stopping need to be kept.
LEMMA BecomesKeep ==
    ASSUME PlayerTypes, TalkInv, NEW rest, Waiting(rest),
           NEW c, Piped(c), c.media = control.media, Becomes(c, rest),
           Len(control'.bus) <= MaxBus, UNCHANGED <<state, bound, reported>>,
           RunInv =>
              /\ Runs(c, Does(rest, "sessionStop"), SoughtStill(c, sought))
              /\ FailsLate = {} /\ Does(rest, "sessionStop") =>
                    /\ c.state = control.state
                    /\ \A k \in 1 .. Len(rest) : rest[k].do = "sessionStop"
    PROVE  Keeping
<1>1. PICK seeks \in BOOLEAN : seeks = SoughtStill(c, sought)
  BY DEF SoughtStill
<1>2. Changes(c, rest) /\ sought' = seeks
  BY <1>1 DEF Becomes, StillSought, SoughtStill
<1>3. bound' \in BOOLEAN /\ UNCHANGED <<state, reported>>
  BY DEF PlayerTypes
<1>4. RunInv => Runs(c, Does(rest, "sessionStop"), seeks)
  BY <1>1
<1> QED
  BY <1>2, <1>3, <1>4, ChangesKeep

\* The rest of a call that is made now.
LEMMA CallRest ==
    ASSUME PlayerTypes, TalkInv, MayCall
    PROVE  /\ Waiting(agenda)
           /\ RunInv => (FailsLate = {} => ~Does(agenda, "sessionStop"))
           /\ RunInv => Runs(control, Does(agenda, "sessionStop"), sought)
<1>1. (WillStop <=> Does(agenda, "sessionStop"))
      /\ (RunInv /\ FailsLate = {} /\ WillStop => ~MayCall)
  BY StopsNow
<1>2. WillStop = Does(agenda, "sessionStop")
  BY <1>1 DEF WillStop, Does
<1> QED
  BY <1>1, <1>2, WaitingCall DEF RunInv

LEMMA DoesBoolean ==
    ASSUME NEW tasks, NEW what
    PROVE  Does(tasks, what) \in BOOLEAN
  BY DEF Does

LEMMA PlayOrPauseKeeps ==
    ASSUME PlayerTypes, TalkInv, MayCall, NEW s \in {"Paused", "Playing"},
           Becomes(Control!playOrPause(control, s), agenda),
           Len(control'.bus) <= MaxBus, UNCHANGED <<state, bound, reported>>
    PROVE  Keeping
<1>1. PICK c : c = Control!playOrPause(control, s)
  OBVIOUS
<1>2. Piped(control) /\ sought \in BOOLEAN
  BY DEF PlayerTypes
<1>3. Piped(c) /\ c.media = control.media
  BY <1>1, <1>2, PlayOrPauseFacts
<1>4. PICK stops \in BOOLEAN : stops = Does(agenda, "sessionStop")
  BY DoesBoolean
<1>5. RunInv => Runs(c, stops, SoughtStill(c, sought)) /\ (FailsLate = {} => ~stops)
  BY <1>1, <1>2, <1>4, CallRest, PlayRuns
<1> QED
  BY <1>1, <1>3, <1>4, <1>5, CallRest, BecomesKeep

LEMMA StopKeeps ==
    ASSUME PlayerTypes, TalkInv, stop, Len(control'.bus) <= MaxBus
    PROVE  Keeping
<1>1. /\ MayCall /\ Becomes(Control!stop(control), agenda)
      /\ UNCHANGED <<state, bound, reported>>
  BY DEF stop
<1>2. PICK c : c = Control!stop(control)
  OBVIOUS
<1>3. Piped(control) /\ sought \in BOOLEAN
  BY DEF PlayerTypes
<1>4. Piped(c) /\ c.media = control.media
  BY <1>2, <1>3, StopFacts
<1>5. PICK stops \in BOOLEAN : stops = Does(agenda, "sessionStop")
  BY DoesBoolean
<1>6. RunInv => Runs(c, stops, SoughtStill(c, sought)) /\ (FailsLate = {} => ~stops)
  BY <1>1, <1>2, <1>3, <1>5, CallRest, StopRuns
<1> QED
  BY <1>1, <1>2, <1>4, <1>5, <1>6, CallRest, BecomesKeep

LEMMA SetPositionKeeps ==
    ASSUME PlayerTypes, TalkInv, setPosition("later"), Len(control'.bus) <= MaxBus
    PROVE  Keeping
<1>1. /\ MayCall /\ Changes(Control!setPosition(control, "later"), agenda)
      /\ sought' = TRUE /\ UNCHANGED <<state, bound, reported>>
  BY DEF setPosition
<1>2. PICK c : c = Control!setPosition(control, "later")
  OBVIOUS
<1>3. Piped(control) /\ sought \in BOOLEAN /\ bound' \in BOOLEAN /\ "later" \in Control!Place
  BY <1>1 DEF PlayerTypes, Control!Place
<1>4. Piped(c) /\ c.media = control.media
  BY <1>2, <1>3, SetPositionFacts
<1>5. PICK stops \in BOOLEAN : stops = Does(agenda, "sessionStop")
  BY DoesBoolean
<1>6. RunInv => Runs(c, stops, TRUE) /\ (FailsLate = {} => ~stops)
  BY <1>1, <1>2, <1>3, <1>5, CallRest, SetPositionRuns
<1> QED
  BY <1>1, <1>2, <1>3, <1>4, <1>5, <1>6, CallRest, ChangesKeep

\* Media is loaded that is current, if the playlist is that of the player.
LEMMA LoadsKeep ==
    ASSUME PlayerTypes, TalkInv, MayCall, NEW c \in Control!Control,
           NEW m \in Media \cup {NoContent}, Loads(Control!setMedia(c, m), agenda),
           Len(control'.bus) <= MaxBus, UNCHANGED <<state, reported>>,
           bound' \in BOOLEAN, bound' => m = currentItem
    PROVE  Keeping
<1>1. PICK d : d = Control!setMedia(c, m)
  OBVIOUS
<1>2. Piped(d) /\ d.media = m
  BY <1>1, SetMediaFacts
<1>3. PICK stops \in BOOLEAN : stops = Does(agenda, "sessionStop")
  BY DoesBoolean
<1>4. RunInv => Runs(d, stops, FALSE) /\ (FailsLate = {} => ~stops)
  BY <1>1, <1>3, CallRest, SetMediaRuns
<1>5. Changes(d, agenda) /\ sought' = FALSE
  BY <1>1 DEF Loads
<1> QED
  BY <1>2, <1>3, <1>4, <1>5, CallRest, ChangesKeep

LEMMA SetMediaKeeps ==
    ASSUME PlayerTypes, TalkInv, NEW m \in Media, setMedia(m), Len(control'.bus) <= MaxBus
    PROVE  Keeping
<1>1. PICK c : c = IF bound /\ ~Keeps(m) THEN Control!setMedia(control, NoContent) ELSE control
  OBVIOUS
<1>2. /\ MayCall /\ bound' = (bound /\ ~(bound /\ ~Keeps(m)))
      /\ Loads(Control!setMedia(c, m), agenda) /\ UNCHANGED <<state, reported>>
  BY <1>1 DEF setMedia
<1>3. control \in Control!Control /\ CurrentIsItem
  BY AgendaType DEF PlayerTypes, NavInv, ListInv
<1>4. c \in Control!Control
  <2>1. CASE bound /\ ~Keeps(m)
    <3>1. c = Control!setMedia(control, NoContent) /\ NoContent \in Media \cup {NoContent}
      BY <1>1, <2>1
    <3> QED
      BY <1>3, <3>1, SetMediaFacts DEF Piped
  <2>2. CASE ~(bound /\ ~Keeps(m))
    BY <1>1, <1>3, <2>2
  <2> QED
    BY <2>1, <2>2
<1>5. bound' \in BOOLEAN /\ (bound' => m = currentItem)
  BY <1>2, <1>3 DEF Keeps, CurrentIsItem
<1> QED
  BY <1>2, <1>4, <1>5, LoadsKeep

LEMMA SetPlaylistKeeps ==
    ASSUME PlayerTypes, TalkInv, NEW playlist \in BOOLEAN, setPlaylist(playlist),
           Len(control'.bus) <= MaxBus
    PROVE  Keeping
<1>1. PICK m : m = IF playlist THEN itemAt(currentPos) ELSE NoContent
  OBVIOUS
<1>2. /\ MayCall /\ bound' = playlist
      /\ Loads(Control!setMedia(control, m), agenda) /\ UNCHANGED <<state, reported>>
  BY <1>1 DEF setPlaylist
<1>3. control \in Control!Control /\ CurrentIsItem /\ currentItem \in Media \cup {NoContent}
  BY AgendaType DEF PlayerTypes, NavInv, ListInv
<1>4. m \in Media \cup {NoContent} /\ (bound' => m = currentItem)
  BY <1>1, <1>2, <1>3 DEF CurrentIsItem
<1> QED
  BY <1>2, <1>3, <1>4, LoadsKeep

-----------------------------------------------------------------------------
(* What is left of a call, and the messages on the bus.                    *)

LEMMA TailStops ==
    ASSUME PlayerTypes, agenda # <<>>, NEW rest, rest = Tail(agenda)
    PROVE  /\ WillStop <=> agenda[1].do = "sessionStop" \/ Does(rest, "sessionStop")
           /\ (\A k \in 1 .. Len(agenda) : agenda[k].do = "sessionStop")
                 => \A k \in 1 .. Len(rest) : rest[k].do = "sessionStop"
<1>1. agenda \in Seq(Tasks)
  BY AgendaType
<1>2. /\ Len(rest) = Len(agenda) - 1 /\ Len(agenda) \in Nat \ {0}
      /\ \A k \in 1 .. Len(rest) : rest[k] = agenda[k + 1]
      /\ Does(agenda, "sessionStop") <=>
            agenda[1].do = "sessionStop" \/ Does(rest, "sessionStop")
  BY <1>1, TailFacts
<1>3. \A k \in 1 .. Len(rest) : k + 1 \in 1 .. Len(agenda)
  BY <1>2
<1> QED
  BY <1>2, <1>3, StopsNow

LEMMA PlayAfterJumpKeeps ==
    ASSUME PlayerTypes, TalkInv, PlayAfterJump, Len(control'.bus) <= MaxBus
    PROVE  Keeping
<1>1. PICK c, rest : c = Control!playOrPause(control, "Playing") /\ rest = Tail(agenda)
  OBVIOUS
<1>2. /\ agenda # <<>> /\ agenda[1].do = "play" /\ Becomes(c, rest)
      /\ UNCHANGED <<state, bound, reported>>
  BY <1>1 DEF PlayAfterJump
<1>3. Piped(control) /\ sought \in BOOLEAN
  BY DEF PlayerTypes
<1>4. Piped(c) /\ c.media = control.media
  BY <1>1, <1>3, PlayOrPauseFacts
<1>5. PICK stops \in BOOLEAN : stops = Does(rest, "sessionStop")
  BY DoesBoolean
<1>6. Waiting(rest)
  BY <1>1, <1>2, WaitingTail
<1>7. WillStop = stops
  BY <1>1, <1>2, <1>5, TailStops DEF WillStop
<1>8. RunInv => Runs(control, stops, sought) /\ (FailsLate = {} => ~stops)
  BY <1>2, <1>7, StopsNow DEF RunInv
<1>9. RunInv => Runs(c, stops, SoughtStill(c, sought))
  BY <1>1, <1>3, <1>8, PlayRuns
<1> QED
  BY <1>2, <1>4, <1>5, <1>6, <1>8, <1>9, BecomesKeep

LEMMA StopSessionKeeps ==
    ASSUME PlayerTypes, TalkInv, StopSession, Len(control'.bus) <= MaxBus
    PROVE  Keeping
<1>1. PICK c, rest : c = Control!sessionStop(control) /\ rest = Tail(agenda)
  OBVIOUS
<1>2. /\ agenda # <<>> /\ agenda[1].do = "sessionStop" /\ Becomes(c, rest)
      /\ UNCHANGED <<state, bound, reported>>
  BY <1>1 DEF StopSession
<1>3. Piped(control) /\ control \in Control!Control /\ sought \in BOOLEAN
  BY DEF PlayerTypes, Piped
<1>4. Piped(c) /\ c.media = control.media
  BY <1>1, <1>3, SessionStopFacts, SessionStopPiped DEF SameMedia
<1>5. PICK stops \in BOOLEAN : stops = Does(rest, "sessionStop")
  BY DoesBoolean
<1>6. Waiting(rest)
  BY <1>1, <1>2, WaitingTail
<1>7. WillStop = TRUE
  BY <1>1, <1>2, TailStops DEF WillStop
<1>8. RunInv => Runs(control, TRUE, sought)
  BY <1>7 DEF RunInv
<1>9. RunInv => /\ Runs(c, stops, SoughtStill(c, sought))
                /\ FailsLate = {} => c.state = control.state
  BY <1>1, <1>3, <1>8, SessionStopRuns
<1>10. RunInv /\ FailsLate = {} => \A k \in 1 .. Len(rest) : rest[k].do = "sessionStop"
  BY <1>1, <1>2, <1>7, TailStops DEF RunInv
<1> QED
  BY <1>2, <1>4, <1>5, <1>6, <1>9, <1>10, BecomesKeep

LEMMA NoneStops ==
    ASSUME agenda = <<>>
    PROVE  ~WillStop /\ ~Does(<<>>, "sessionStop") /\ MayCall = (~fault)
<1>1. \A k \in 1 .. Len(agenda) : FALSE
  OBVIOUS
<1> QED
  BY <1>1 DEF WillStop, Does, MayCall

LEMMA TakeMessageKeeps ==
    ASSUME PlayerTypes, TalkInv, TakeMessage, Len(control'.bus) <= MaxBus
    PROVE  Keeping
<1>1. PICK message, t, c : /\ message = control.bus[1] /\ t = Control!Taken
                           /\ c = Control!Handle(t, message)
  OBVIOUS
<1>2. /\ agenda = <<>> /\ control.bus # <<>> /\ message # "error" /\ Becomes(c, <<>>)
      /\ UNCHANGED <<state, bound, reported>>
  BY <1>1 DEF TakeMessage
<1>3. Piped(control) /\ sought \in BOOLEAN
  BY DEF PlayerTypes
<1>4. t = [control EXCEPT !.bus = Tail(@)]
  BY <1>1 DEF Control!Taken
<1>5. /\ Piped(t) /\ SameMedia(t, control) /\ t.state = control.state
      /\ t.status = control.status
      /\ t.target = control.target /\ t.at = control.at /\ t.place = control.place
      /\ message \in Control!Message /\ control.target # "null"
      /\ message \in {"low", "full"} => control.uri \in Buffered
  BY <1>1, <1>2, <1>3, <1>4, TakenFacts
<1>6. t.uri = control.uri /\ t.target # "null" /\ message \in Control!Message \ {"error"}
  BY <1>2, <1>5 DEF SameMedia
<1>7. Told(c, t)
  BY <1>1, <1>5, <1>6, HandleFacts
<1>8. Piped(c) /\ c.media = control.media
  BY <1>5, <1>7 DEF Told, SameMedia
<1>9. RunInv => Runs(t, FALSE, sought)
  <2>1. RunInv => Runs(control, FALSE, sought)
    <3>1. WillStop = FALSE
      BY <1>2, NoneStops DEF WillStop
    <3> QED
      BY <3>1 DEF RunInv
  <2> QED
    BY <1>5, <2>1 DEF Runs, SameMedia, Fresh
<1>10. RunInv => Runs(c, FALSE, SoughtStill(c, sought))
  BY <1>3, <1>7, <1>9, HandleRuns
<1>11. Does(<<>>, "sessionStop") = FALSE
  BY <1>2, NoneStops, DoesBoolean
<1> QED
  BY <1>2, <1>8, <1>10, <1>11, WaitingNone, BecomesKeep

LEMMA TakeErrorKeeps ==
    ASSUME PlayerTypes, TalkInv, TakeError, Len(control'.bus) <= MaxBus
    PROVE  Keeping
<1>1. PICK t, c, rest : /\ t = Control!Taken /\ c = Control!handleInvalidMedia(t)
                        /\ rest = <<SessionStop, SessionStop>>
  OBVIOUS
<1>2. /\ agenda = <<>> /\ control.bus # <<>> /\ control.bus[1] = "error" /\ Becomes(c, rest)
      /\ UNCHANGED <<state, bound, reported>>
  BY <1>1 DEF TakeError, SessionStop
<1>3. Piped(control) /\ sought \in BOOLEAN
  BY DEF PlayerTypes
<1>4. t = [control EXCEPT !.bus = Tail(@)]
  BY <1>1 DEF Control!Taken
<1>5. /\ Piped(t) /\ SameMedia(t, control) /\ t.state = control.state
      /\ t.status = control.status
      /\ t.target = control.target /\ t.at = control.at /\ t.place = control.place
      /\ FailsLate = {} => control.target = "null" /\ control.state = "Stopped"
  BY <1>2, <1>3, <1>4, TakenFacts
<1>6. Runs(control, FALSE, sought) => Runs(t, FALSE, sought)
  BY <1>5 DEF Runs, SameMedia, Fresh
<1>7. RunInv => Runs(control, FALSE, sought)
  <2>1. WillStop = FALSE
    BY <1>2, NoneStops DEF WillStop
  <2> QED
    BY <2>1 DEF RunInv
<1>8. Piped(c) /\ c.state = "Stopped" /\ c.media = t.media
  BY <1>1, <1>5, InvalidFacts
<1>9. RunInv => Runs(c, TRUE, SoughtStill(c, sought))
  BY <1>1, <1>3, <1>5, <1>6, <1>7, InvalidRuns
<1>10. rest = <<SessionStop, SessionStop>> /\ Waiting(rest)
  BY <1>1, <1>2, WaitingStops
<1>11. (\A k \in 1 .. Len(rest) : rest[k].do = "sessionStop") /\ Does(rest, "sessionStop") = TRUE
  <2>1. SessionStop.do = "sessionStop"
    BY DEF SessionStop
  <2>2. /\ Len(rest) = 2 /\ rest[1].do = "sessionStop" /\ rest[2].do = "sessionStop"
    BY <1>10, <2>1
  <2> QED
    BY <2>2 DEF Does
<1>12. c.media = control.media /\ (FailsLate = {} => c.state = control.state)
  BY <1>5, <1>8 DEF SameMedia
<1> QED
  BY <1>2, <1>8, <1>9, <1>10, <1>11, <1>12, BecomesKeep

-----------------------------------------------------------------------------
(* The pipeline goes on by itself.                                         *)

\* The control and the session know nothing of it yet.
Unheard(d, c) ==
    /\ SameMedia(d, c) /\ d.state = c.state /\ d.status = c.status /\ d.target = c.target
    /\ d.session = c.session

LEMMA PostedFacts ==
    ASSUME NEW c, Piped(c), c.target # "null", NEW message \in Control!Message,
           message = "error" => FailsLate # {},
           message \in {"low", "full"} => c.uri \in Buffered,
           NEW d \in Control!Control, Unheard(d, c), d.bus = Append(c.bus, message)
    PROVE  Piped(d)
<1>1. c.bus \in Seq(Control!Message)
  BY DEF Piped, Control!Control
<1>2. /\ Len(d.bus) = Len(c.bus) + 1 /\ Len(c.bus) \in Nat
      /\ \A k \in 1 .. Len(c.bus) : d.bus[k] = c.bus[k]
      /\ d.bus[Len(c.bus) + 1] = message
  BY <1>1
<1>3. \A k \in 1 .. Len(d.bus) : k \in 1 .. Len(c.bus) \/ d.bus[k] = message
  BY <1>2
<1>4. Quiet(d)
  BY DEF Quiet, Unheard
<1>5. Levels(d)
  BY <1>2, <1>3 DEF Levels, Piped, Unheard, SameMedia
<1>6. Refused(d)
  BY <1>2, <1>3 DEF Refused, Piped, Unheard, SameMedia
<1> QED
  BY <1>4, <1>5, <1>6 DEF Piped

LEMMA PipelineRuns ==
    ASSUME NEW c, Piped(c), NEW d, Unheard(d, c),
           d.at # c.at \/ d.place # c.place => c.target # "null",
           NEW stops \in BOOLEAN, NEW seeks \in BOOLEAN, Runs(c, stops, seeks),
           d.at # "playing" \/ c.at = "playing" \/ c.target = "playing",
           d.place = c.place \/ c.at = "playing"
    PROVE  Runs(d, stops, seeks)
<1>1. c.state = "Stopped" /\ ~seeks => Fresh(d) \/ stops
  BY DEF Runs, Fresh, Unheard, SameMedia
<1> QED
  BY <1>1 DEF Runs, Unheard, SameMedia

\* What a step of the pipeline does to the control.
Runner(d, c) ==
    /\ Piped(d) /\ Unheard(d, c)
    /\ d.at # "playing" \/ c.at = "playing" \/ c.target = "playing"
    /\ d.place = c.place \/ c.at = "playing"
    /\ d.at # c.at \/ d.place # c.place => c.target # "null"

LEMMA PipelineFacts ==
    ASSUME Piped(control), Control!Pipeline
    PROVE  Runner(control', control)
<1>1. control \in Control!Control /\ control.bus \in Seq(Control!Message)
  BY DEF Piped, Control!Control
<1>2. control.at # "null" \/ control.at # control.target => control.target # "null"
  BY DEF Piped, Quiet
<1>3. ASSUME NEW message \in Control!Message
      PROVE  Append(control.bus, message) \in Seq(Control!Message)
  BY <1>1
<1>4. CASE Control!Settle
  <2>1. PICK to \in {"paused", "playing"} :
            to = IF control.at = "paused" THEN "playing" ELSE "paused"
    OBVIOUS
  <2>2. PICK message \in Control!Message \ {"error", "low", "full"} :
            message = IF control.at = "null" THEN "prerolled" ELSE to
    BY <2>1 DEF Control!Message
  <2>3. PICK bus \in Seq(Control!Message) : bus = Append(control.bus, message)
    BY <1>3, <2>2
  <2>4. control.at # control.target /\ control' = [control EXCEPT !.at = to, !.bus = bus]
    BY <1>4, <2>1, <2>2, <2>3 DEF Control!Settle
  <2>5. PICK d : d = [control EXCEPT !.at = to, !.bus = bus]
    OBVIOUS
  <2>6. /\ d \in Control!Control /\ Unheard(d, control) /\ d.at = to
        /\ d.place = control.place /\ d.bus = bus
    BY <1>1, <2>5 DEF Control!Control, Unheard, SameMedia
  <2>7. Piped(d)
    BY <1>2, <2>2, <2>3, <2>4, <2>6, PostedFacts
  <2>8. to = "playing" => control.target = "playing"
    BY <1>1, <1>2, <2>1, <2>4 DEF Control!Control
  <2> QED
    BY <1>2, <2>4, <2>5, <2>6, <2>7, <2>8 DEF Runner
<1>5. CASE Control!Proceed
  <2>1. control.at = "playing" /\ control' = [control EXCEPT !.place = "later"]
    BY <1>5 DEF Control!Proceed
  <2>2. PICK d : d = [control EXCEPT !.place = "later"]
    OBVIOUS
  <2>3. /\ d \in Control!Control /\ Unheard(d, control) /\ d.at = control.at
        /\ d.bus = control.bus
    BY <1>1, <2>2 DEF Control!Control, Control!Place, Unheard, SameMedia
  <2>4. Piped(d)
    BY <1>2, <2>1, <2>3 DEF Piped, Quiet, Levels, Refused, Unheard, SameMedia
  <2> QED
    BY <1>2, <2>1, <2>2, <2>3, <2>4 DEF Runner
<1>6. CASE Control!Finish
  <2>1. "eos" \in Control!Message
    BY DEF Control!Message
  <2>2. PICK bus \in Seq(Control!Message) : bus = Append(control.bus, "eos")
    BY <1>3, <2>1
  <2>3. control.at = "playing" /\ control' = [control EXCEPT !.place = "end", !.bus = bus]
    BY <1>6, <2>2 DEF Control!Finish
  <2>4. PICK d : d = [control EXCEPT !.place = "end", !.bus = bus]
    OBVIOUS
  <2>5. /\ d \in Control!Control /\ Unheard(d, control) /\ d.at = control.at /\ d.bus = bus
    BY <1>1, <2>4 DEF Control!Control, Control!Place, Unheard, SameMedia
  <2>6. Piped(d)
    BY <1>2, <2>1, <2>2, <2>3, <2>5, PostedFacts
  <2> QED
    BY <1>2, <2>3, <2>4, <2>5, <2>6 DEF Runner
<1>7. CASE Control!Fail
  <2>1. "error" \in Control!Message
    BY DEF Control!Message
  <2>2. PICK bus \in Seq(Control!Message) : bus = Append(control.bus, "error")
    BY <1>3, <2>1
  <2>3. /\ control.at # "null" /\ FailsLate # {}
        /\ control' = [control EXCEPT !.bus = bus]
    BY <1>7, <2>2 DEF Control!Fail
  <2>4. PICK d : d = [control EXCEPT !.bus = bus]
    OBVIOUS
  <2>5. /\ d \in Control!Control /\ Unheard(d, control) /\ d.at = control.at
        /\ d.place = control.place /\ d.bus = bus
    BY <1>1, <2>4 DEF Control!Control, Unheard, SameMedia
  <2>6. Piped(d)
    BY <1>2, <2>1, <2>2, <2>3, <2>5, PostedFacts
  <2>7. d.at # "playing" \/ control.at = "playing"
    BY <2>5
  <2> QED
    BY <2>3, <2>4, <2>5, <2>6, <2>7 DEF Runner
<1>8. CASE Control!Buffer
  <2>1. PICK level \in {"low", "full"} :
            level = IF control.level = "low" THEN "full" ELSE "low"
    OBVIOUS
  <2>2. level \in Control!Message /\ level # "error"
    BY <2>1 DEF Control!Message
  <2>3. PICK bus \in Seq(Control!Message) : bus = Append(control.bus, level)
    BY <1>3, <2>2
  <2>4. /\ control.at # "null" /\ control.uri \in Buffered
        /\ control' = [control EXCEPT !.level = level, !.bus = bus]
    BY <1>8, <2>1, <2>3 DEF Control!Buffer
  <2>5. PICK d : d = [control EXCEPT !.level = level, !.bus = bus]
    OBVIOUS
  <2>6. /\ d \in Control!Control /\ Unheard(d, control) /\ d.at = control.at
        /\ d.place = control.place /\ d.bus = bus
    BY <1>1, <2>5 DEF Control!Control, Unheard, SameMedia
  <2>7. Piped(d)
    BY <1>2, <2>2, <2>3, <2>4, <2>6, PostedFacts
  <2>8. d.at # "playing" \/ control.at = "playing"
    BY <2>6
  <2> QED
    BY <2>4, <2>5, <2>6, <2>7, <2>8 DEF Runner
<1> QED
  BY <1>4, <1>5, <1>6, <1>7, <1>8 DEF Control!Pipeline

LEMMA PipelineKeeps ==
    ASSUME PlayerTypes, TalkInv, Pipeline, Len(control'.bus) <= MaxBus
    PROVE  Keeping
<1>1. Control!Pipeline /\ UNCHANGED <<vars, state, bound, reported, sought>>
  BY DEF Pipeline
<1>2. Piped(control) /\ sought \in BOOLEAN /\ WillStop \in BOOLEAN
  BY DEF PlayerTypes, WillStop
<1>3. Runner(control', control)
  BY <1>1, <1>2, PipelineFacts
<1>4. UNCHANGED <<navVars, agenda, inSlot, heardMedia, heardIndex, promise>>
  BY <1>1 DEF vars, listeners
<1>5. NavInv(Tasks)'
  BY <1>4
     DEF PlayerTypes, NavInv, ListInv, Work, ListTypeOK, CurrentIsItem, HistoryShape,
         itemAt, Count, navVars
<1>6. PlayerTypes'
  BY <1>1, <1>3, <1>5 DEF PlayerTypes, Runner
<1>7. control'.state = control.state /\ control'.media = control.media
  BY <1>3 DEF Runner, Unheard, SameMedia
<1>8. TalkInv'
  BY <1>1, <1>4, <1>7 DEF TalkInv, AtFront, Knows
<1>9. HearInv /\ Loaded => HearInv' /\ Loaded'
  BY <1>1, <1>4, <1>7
     DEF HearInv, CopyIsCurrent, HearsYet, Loaded, HasItem, navVars
<1>10. RunInv => RunInv'
  <2>1. WillStop' = WillStop
    BY <1>4 DEF WillStop
  <2>2. PICK d : d = control'
    OBVIOUS
  <2>3. Runs(control, WillStop, sought) => Runs(d, WillStop, sought)
    BY <1>2, <1>3, <2>2, PipelineRuns DEF Runner
  <2> QED
    BY <1>1, <1>4, <2>1, <2>2, <2>3 DEF RunInv
<1> QED
  BY <1>6, <1>8, <1>9, <1>10 DEF Keeping

-----------------------------------------------------------------------------
(* The calls of the playlist.                                              *)

\* Nothing is announced, or what is, comes before the rest.
LEMMA AnnounceKeeps ==
    ASSUME PlayerTypes, TalkInv, NEW rest \in Seq(Tasks), Ordered(rest),
           rest # <<>> => rest[1].do # "stateChanged",
           state = control.state \/ Does(rest, "advanced"),
           Does(rest, "sessionStop") <=> WillStop,
           RunInv => (FailsLate = {} => ~WillStop),
           Emits(rest), NavInv(Tasks)', HearInv => HearInv', UNCHANGED playerVars
    PROVE  Keeping
<1>1. UNCHANGED <<control, state, bound, reported, sought>> /\ PlayerTypes'
  BY DEF playerVars, PlayerTypes
<1>2. agenda' \in Seq(Tasks)
  BY DEF NavInv, Work
<1>3. CASE UNCHANGED listeners
  <2>1. UNCHANGED <<agenda, inSlot, heardMedia, heardIndex>>
    BY <1>3 DEF listeners
  <2>2. TalkInv'
    BY <1>1, <2>1 DEF TalkInv, AtFront, Knows
  <2>3. Loaded => Loaded'
    BY <1>1, <2>1 DEF Loaded
  <2>4. WillStop' <=> WillStop
    BY <2>1 DEF WillStop
  <2>5. RunInv => RunInv'
    BY <1>1, <2>4, RunSame
  <2> QED
    BY <1>1, <2>2, <2>3, <2>5 DEF Keeping
<1>4. CASE Announces(rest)
  <2>1. TalkInv' /\ HasItem(agenda')
    BY <1>2, <1>4, AnnounceTalk
  <2>2. Does(agenda', "sessionStop") <=> Does(rest, "sessionStop")
    BY <1>2, <1>4, AnnouncesFacts
  <2>3. WillStop' <=> WillStop
    BY <2>2 DEF WillStop, Does
  <2>4. RunInv => RunInv'
    BY <1>1, <2>3, RunSame
  <2> QED
    BY <1>1, <2>1, <2>4 DEF Keeping, Loaded
<1> QED
  BY <1>3, <1>4 DEF Emits

LEMMA ListCallsKeep ==
    ASSUME PlayerTypes, TalkInv, ListCalls
    PROVE  Keeping
<1>1. Calls /\ UNCHANGED playerVars
  BY DEF ListCalls
<1>2. NavInv(Tasks) /\ agenda \in Seq(Tasks)
  BY AgendaType DEF PlayerTypes
<1>3. NavInv(Tasks)' /\ (HearInv => HearInv')
  BY <1>1, <1>2, CallsKeep
<1>4. MayCall /\ Emits(agenda)
  BY <1>1, <1>2, CallsEmit
<1>5. /\ Ordered(agenda) /\ (agenda # <<>> => agenda[1].do \notin {"stateChanged", "advanced"})
      /\ state = control.state \/ Does(agenda, "advanced")
  BY <1>4, WaitingCall DEF Waiting
<1>6. /\ Does(agenda, "sessionStop") <=> WillStop
      /\ RunInv => (FailsLate = {} => ~WillStop)
  BY <1>4, StopsNow
<1> QED
  BY <1>1, <1>2, <1>3, <1>4, <1>5, <1>6, AnnounceKeeps

\* play() sets the index first if there is no current item.
LEMMA PlayKeeps ==
    ASSUME PlayerTypes, TalkInv, play, Len(control'.bus) <= MaxBus
    PROVE  Keeping
<1>1. MayCall /\ UNCHANGED <<state, bound, reported>>
  BY DEF play
<1>2. CASE ~(bound /\ currentPos = -1 /\ Count > 0)
  <2>1. Becomes(Control!playOrPause(control, "Playing"), agenda)
    BY <1>2 DEF play
  <2> QED
    BY <1>1, <2>1, PlayOrPauseKeeps
<1>3. CASE bound /\ currentPos = -1 /\ Count > 0
  <2>1. PICK t \in Tasks : t = [do |-> "play"] /\ t.do = "play"
    <3>1. [do |-> "play"].do = "play"
      OBVIOUS
    <3> QED
      BY <3>1, TaskKinds
  <2>2. PICK rest : rest = Before(t, agenda)
    OBVIOUS
  <2>3. /\ Jump(0, resources, currentPos, ThisHistory, rest)
        /\ promise' = <<>> /\ UNCHANGED <<resources, playbackMode, control, sought>>
    BY <1>3, <2>1, <2>2 DEF play, Before
  <2>4. /\ NavInv(Tasks) /\ ListInv /\ agenda \in Seq(Tasks) /\ ~fault
        /\ resources \in Seq(Media) /\ Len(resources) <= MaxItems
        /\ promise' \in Seq(Promise)
    BY <1>1, <2>3, AgendaType, EmptyPromise
       DEF PlayerTypes, NavInv, ListInv, ListTypeOK, Count, MayCall
  <2>5. /\ rest \in Seq(Tasks) /\ rest # <<>> /\ rest[1] = t
        /\ HasNoCopy(agenda) => HasNoCopy(rest)
        /\ \A what : Does(rest, what) <=> t.do = what \/ Does(agenda, what)
        /\ Ordered(agenda) /\ (agenda # <<>> => agenda[1].do \notin {"stateChanged", "advanced"})
              => Ordered(rest)
    BY <2>1, <2>2, <2>4, BeforeFacts
  <2>6. /\ Ordered(agenda) /\ (agenda # <<>> => agenda[1].do \notin {"stateChanged", "advanced"})
        /\ state = control.state \/ Does(agenda, "advanced")
        /\ HearInv => HasNoCopy(agenda)
    BY <1>1, WaitingCall DEF Waiting
  <2>7. /\ randomModePositions \in Seq(Position) /\ randomPositionsOffset \in Int
        /\ IF playbackMode = "Random"
           THEN randomPositionsOffset \in 0 .. Len(randomModePositions) - 1
           ELSE randomPositionsOffset = -1 /\ randomModePositions = <<>>
        /\ ThisHistory = History(randomModePositions, randomPositionsOffset)
    BY <2>4, HistoryNow
  <2>8. PICK p \in Int : p = 0
    OBVIOUS
  <2>9. Jump(p, resources, currentPos, History(randomModePositions, randomPositionsOffset), rest)
    BY <2>3, <2>7, <2>8
  <2>10. NavInv(Tasks)' /\ (HasNoCopy(rest) => HearInv')
    BY <2>3, <2>4, <2>5, <2>7, <2>9, JumpKeeps
  <2>11. Emits(rest)
    BY <2>3, <2>5, JumpEmits
  <2>12. /\ Does(rest, "sessionStop") <=> WillStop
         /\ RunInv => (FailsLate = {} => ~WillStop)
    BY <1>1, <2>1, <2>5, StopsNow
  <2>13. UNCHANGED playerVars /\ rest[1].do # "stateChanged" /\ Ordered(rest)
         /\ (state = control.state \/ Does(rest, "advanced"))
    BY <1>1, <2>1, <2>3, <2>5, <2>6 DEF playerVars
  <2> QED
    BY <2>5, <2>6, <2>10, <2>11, <2>12, <2>13, AnnounceKeeps
<1> QED
  BY <1>2, <1>3

-----------------------------------------------------------------------------
(* The player hears of a state, and goes on to the next item.              *)

\* The first task is done, and it was none of the playlist's items.
LEMMA PopFacts ==
    ASSUME PlayerTypes, TalkInv, agenda # <<>>, NEW rest, rest = Tail(agenda)
    PROVE  /\ rest \in Seq(Tasks) /\ Ordered(rest)
           /\ rest # <<>> => rest[1].do # "stateChanged"
           /\ agenda[1].do \notin {"activated", "update"} =>
                 /\ rest # <<>> => rest[1].do # "advanced"
                 /\ HasItem(agenda) => HasItem(rest)
           /\ Does(agenda, "advanced") <=> agenda[1].do = "advanced" \/ Does(rest, "advanced")
           /\ HearInv => HasNoCopy(rest)
           /\ agenda[1].do # "sessionStop" =>
                 /\ WillStop <=> Does(rest, "sessionStop")
                 /\ RunInv => (FailsLate = {} => ~WillStop)
<1>1. agenda \in Seq(Tasks) /\ Ordered(agenda)
  BY AgendaType DEF TalkInv
<1>2. /\ rest \in Seq(Tasks) /\ Len(rest) = Len(agenda) - 1 /\ Len(agenda) \in Nat \ {0}
      /\ \A k \in 1 .. Len(rest) : rest[k] = agenda[k + 1]
      /\ HasItem(agenda) =>
            agenda[1].do \in {"activated", "update"} \/ HasItem(rest)
      /\ Does(agenda, "advanced") <=> agenda[1].do = "advanced" \/ Does(rest, "advanced")
      /\ Ordered(rest)
      /\ rest # <<>> =>
            /\ rest[1].do # "stateChanged"
            /\ rest[1].do = "advanced" => agenda[1].do \in {"activated", "update"}
  BY <1>1, TailFacts
<1>3. HearInv => HasNoCopy(rest)
  <2> SUFFICES ASSUME HearInv, NEW k \in 1 .. Len(rest), rest[k].do \in {"activated", "update"}
               PROVE  rest[k].copy = <<>>
    BY DEF HasNoCopy
  <2>1. k + 1 \in 1 .. Len(agenda) /\ k + 1 # 1 /\ rest[k] = agenda[k + 1]
    BY <1>2
  <2> QED
    BY <2>1 DEF HearInv, CopyIsCurrent
<1>4. agenda[1].do # "sessionStop" =>
         /\ WillStop <=> Does(rest, "sessionStop")
         /\ RunInv => (FailsLate = {} => ~WillStop)
  BY TailStops, StopsNow
<1> QED
  BY <1>2, <1>3, <1>4

LEMMA AdvanceKeeps ==
    ASSUME PlayerTypes, TalkInv, Advance
    PROVE  Keeping
<1>1. PICK t \in Tasks : t = [do |-> "advanced"] /\ t.do = "advanced"
  <2>1. [do |-> "advanced"].do = "advanced"
    OBVIOUS
  <2> QED
    BY <2>1, TaskKinds
<1>2. PICK left : left = Tail(agenda)
  OBVIOUS
<1>3. PICK rest : rest = Before(t, left)
  OBVIOUS
<1>4. /\ ~fault /\ agenda # <<>> /\ agenda[1].do = "stateChanged"
      /\ Move(nextItemPos(1), 1, rest) /\ promise' = Kept("next")
      /\ UNCHANGED <<resources, playbackMode>> /\ UNCHANGED playerVars
  BY <1>1, <1>2, <1>3 DEF Advance, Before
<1>5. NavInv(Tasks) /\ ListInv /\ promise \in Seq(Promise)
  BY DEF PlayerTypes, NavInv, ListInv, ListTypeOK
<1>6. /\ left \in Seq(Tasks) /\ Ordered(left)
      /\ left # <<>> => left[1].do \notin {"stateChanged", "advanced"}
      /\ HearInv => HasNoCopy(left)
      /\ WillStop <=> Does(left, "sessionStop")
      /\ RunInv => (FailsLate = {} => ~WillStop)
  BY <1>2, <1>4, PopFacts
<1>7. /\ rest \in Seq(Tasks) /\ rest # <<>> /\ rest[1] = t
      /\ HasNoCopy(left) => HasNoCopy(rest)
      /\ \A what : Does(rest, what) <=> t.do = what \/ Does(left, what)
      /\ Ordered(rest)
  BY <1>1, <1>3, <1>6, BeforeFacts
<1>8. \A a \in nextItemPos(1) : Leads(a, 1)
  BY <1>4, <1>5, NextAnswers
<1>9. promise' \in Seq(Promise)
  BY <1>4, <1>5, KeptType
<1>10. NavInv(Tasks)' /\ (HearInv /\ HasNoCopy(rest) => HearInv')
  BY <1>4, <1>5, <1>7, <1>8, <1>9, MoveStep
<1>11. Emits(rest)
  BY <1>4, <1>7, JumpEmits DEF Move
<1>12. rest[1].do # "stateChanged" /\ Does(rest, "advanced")
       /\ (Does(rest, "sessionStop") <=> WillStop)
  BY <1>1, <1>6, <1>7
<1> QED
  BY <1>4, <1>6, <1>7, <1>10, <1>11, <1>12, AnnounceKeeps

\* The player takes the state s, and tells the application if it is another.
LEMMA ReportKeeps ==
    ASSUME PlayerTypes, TalkInv, agenda # <<>>,
           agenda[1].do \in {"stateChanged", "advanced"}, Report(control.state)
    PROVE  Keeping
<1>1. PICK rest : rest = Tail(agenda)
  OBVIOUS
<1>2. /\ rest \in Seq(Tasks) /\ Ordered(rest)
      /\ rest # <<>> => rest[1].do \notin {"stateChanged", "advanced"}
      /\ HasItem(agenda) => HasItem(rest)
      /\ HearInv => HasNoCopy(rest)
      /\ WillStop <=> Does(rest, "sessionStop")
      /\ RunInv => (FailsLate = {} => ~WillStop)
  BY <1>1, PopFacts
<1>3. /\ state' = control.state /\ reported' = control.state /\ agenda' = rest
      /\ inSlot' = (control.state # state)
      /\ UNCHANGED <<navVars, heardMedia, heardIndex, promise, control, bound, sought>>
  BY <1>1 DEF Report
<1>4. control.state \in Control!State
  BY AgendaType DEF Control!Control
<1>5. NavInv(Tasks)'
  BY <1>2, <1>3
     DEF PlayerTypes, NavInv, ListInv, Work, ListTypeOK, CurrentIsItem, HistoryShape,
         itemAt, Count, navVars
<1>6. PlayerTypes'
  BY <1>3, <1>4, <1>5 DEF PlayerTypes
<1>7. TalkInv'
  BY <1>2, <1>3 DEF TalkInv, AtFront, Knows
<1>8. HearInv /\ Loaded => HearInv' /\ Loaded'
  <2> SUFFICES ASSUME HearInv, Loaded PROVE HearInv' /\ Loaded'
    OBVIOUS
  <2>1. UNCHANGED <<currentItem, heardMedia, control, bound>>
    BY <1>3 DEF navVars
  <2>2. heardMedia = currentItem \/ HasItem(agenda)
    BY DEF HearInv, HearsYet, HasItem
  <2>3. CopyIsCurrent'
    BY <1>2, <1>3 DEF CopyIsCurrent, HasNoCopy
  <2>4. HearsYet' /\ Loaded'
    BY <1>2, <1>3, <2>1, <2>2 DEF HearsYet, HasItem, Loaded
  <2> QED
    BY <2>3, <2>4 DEF HearInv
<1>9. WillStop' <=> WillStop
  BY <1>2, <1>3 DEF WillStop, Does
<1>10. RunInv => RunInv'
  BY <1>2, <1>3, <1>9, RunSame
<1> QED
  BY <1>6, <1>7, <1>8, <1>10 DEF Keeping

LEMMA HearStateKeeps ==
    ASSUME PlayerTypes, TalkInv, HearState
    PROVE  Keeping
<1>1. /\ agenda # <<>> /\ agenda[1].do = "stateChanged" /\ Report(agenda[1].state)
      /\ agenda[1].state = control.state
  BY DEF HearState, TalkInv, AtFront
<1> QED
  BY <1>1, ReportKeeps

LEMMA AdvancedKeeps ==
    ASSUME PlayerTypes, TalkInv, Advanced
    PROVE  Keeping
  BY ReportKeeps DEF Advanced

-----------------------------------------------------------------------------
(* What the playlist announces is delivered.                               *)

LEMMA DeliverIndexKeeps ==
    ASSUME PlayerTypes, TalkInv, DeliverIndex, UNCHANGED playerVars
    PROVE  Keeping
<1>1. PICK rest : rest = Tail(agenda)
  OBVIOUS
<1>2. /\ agenda # <<>> /\ agenda[1].do = "currentIndexChanged" /\ agenda' = rest
      /\ heardMedia' = heardMedia
  BY <1>1 DEF DeliverIndex
<1>3. /\ rest # <<>> => rest[1].do \notin {"stateChanged", "advanced"}
      /\ HasItem(agenda) => HasItem(rest)
      /\ Ordered(rest)
      /\ Does(agenda, "advanced") <=> Does(rest, "advanced")
      /\ WillStop <=> Does(rest, "sessionStop")
      /\ RunInv => (FailsLate = {} => ~WillStop)
  BY <1>1, <1>2, PopFacts
<1>4. NavInv(Tasks)' /\ (HearInv => HearInv')
  BY DeliverIndexStep DEF PlayerTypes
<1>5. PlayerTypes' /\ UNCHANGED <<control, state, bound, reported, sought>>
  BY <1>4 DEF PlayerTypes, playerVars
<1>6. TalkInv'
  BY <1>2, <1>3, <1>5 DEF TalkInv, AtFront, Knows
<1>7. Loaded => Loaded'
  BY <1>2, <1>3, <1>5 DEF Loaded
<1>8. WillStop' <=> WillStop
  BY <1>2, <1>3 DEF WillStop, Does
<1>9. RunInv => RunInv'
  BY <1>3, <1>5, <1>8, RunSame
<1> QED
  BY <1>4, <1>5, <1>6, <1>7, <1>9 DEF Keeping

LEMMA DeliverMediaKeeps ==
    ASSUME PlayerTypes, TalkInv, DeliverMedia, UNCHANGED playerVars
    PROVE  Keeping
<1>1. /\ agenda \in Seq(Tasks) /\ agenda # <<>> /\ agenda[1].do = "activated"
      /\ Len(agenda) \in Nat \ {0}
  BY AgendaType DEF DeliverMedia
<1>2. /\ NavInv(Tasks)' /\ (HearInv /\ SlotsOnChange = FALSE => HearInv')
      /\ Len(agenda') = Len(agenda) /\ agenda'[1].do = "update"
      /\ \A k \in 2 .. Len(agenda) : agenda'[k] = agenda[k]
  BY DeliverMediaStep DEF PlayerTypes
<1>3. PICK new : new = agenda'
  OBVIOUS
<1>4. /\ Len(new) = Len(agenda) /\ Len(agenda) \in Nat \ {0}
      /\ new[1].do = "update" /\ 1 \in 1 .. Len(agenda)
      /\ \A k \in 2 .. Len(agenda) : new[k] = agenda[k]
  BY <1>1, <1>2, <1>3
<1>5. \A k \in 1 .. Len(agenda) : k = 1 \/ k \in 2 .. Len(agenda)
  BY <1>4
<1>6. HasItem(new)
  BY <1>4 DEF HasItem
<1>7. ASSUME NEW what, what \notin {"activated", "update"}
       PROVE  Does(new, what) <=> Does(agenda, what)
  BY <1>1, <1>4, <1>5, <1>7 DEF Does
<1>8. Ordered(new)
  <2> SUFFICES ASSUME NEW k \in 2 .. Len(agenda)
               PROVE  /\ new[k].do # "stateChanged"
                      /\ new[k].do = "advanced" => new[k - 1].do \in {"activated", "update"}
    BY <1>4 DEF Ordered
  <2>1. /\ new[k] = agenda[k] /\ agenda[k].do # "stateChanged"
        /\ agenda[k].do = "advanced" => agenda[k - 1].do \in {"activated", "update"}
    BY <1>4 DEF TalkInv, Ordered
  <2>2. k - 1 = 1 \/ k - 1 \in 2 .. Len(agenda)
    BY <1>4
  <2> QED
    BY <1>4, <2>1, <2>2
<1>9. PlayerTypes' /\ UNCHANGED <<control, state, bound, reported, sought>>
  BY <1>2 DEF PlayerTypes, playerVars
<1>10. TalkInv'
  <2>1. Does(new, "advanced") <=> Does(agenda, "advanced")
    BY <1>7
  <2> QED
    BY <1>1, <1>3, <1>4, <1>8, <1>9, <2>1 DEF TalkInv, AtFront, Knows
<1>11. Loaded'
  BY <1>3, <1>6 DEF Loaded
<1>12. RunInv => RunInv'
  <2>1. Does(new, "sessionStop") <=> Does(agenda, "sessionStop")
    BY <1>7
  <2>2. WillStop' <=> WillStop
    BY <1>3, <2>1 DEF WillStop, Does
  <2>3. RunInv => (FailsLate = {} => ~WillStop)
    BY <1>1, StopsNow
  <2> QED
    BY <1>9, <2>2, <2>3, RunSame
<1> QED
  BY <1>2, <1>9, <1>10, <1>11, <1>12 DEF Keeping

-----------------------------------------------------------------------------
(* The player loads what the playlist announces, and goes on as it was.    *)

LEMMA ResumedFacts ==
    ASSUME NEW c, Piped(c), c.pendingSeek = "none", NEW stops \in BOOLEAN,
           NEW s \in Control!State, NEW d, d = Resumed(c, s)
    PROVE  /\ Piped(d) /\ d.media = c.media
           /\ Runs(c, stops, FALSE) /\ (FailsLate = {} => ~stops) => Runs(d, stops, FALSE)
<1>1. CASE s = "Stopped"
  BY <1>1 DEF Resumed
<1>2. CASE s # "Stopped"
  <2>1. d = Control!playOrPause(c, s) /\ s \in {"Paused", "Playing"}
    BY <1>2 DEF Resumed, Control!State
  <2>2. Piped(d) /\ d.media = c.media /\ d.pendingSeek = "none"
    BY <2>1, PlayOrPauseFacts
  <2>3. SoughtStill(d, FALSE) = FALSE
    BY <2>2 DEF SoughtStill
  <2>4. Runs(c, stops, FALSE) /\ (FailsLate = {} => ~stops) => Runs(d, stops, FALSE)
    BY <2>1, <2>3, PlayRuns
  <2> QED
    BY <2>2, <2>4
<1> QED
  BY <1>1, <1>2

\* The control after an item has been announced, if the playlist is the player's.
LEMMA UpdatedFacts ==
    ASSUME PlayerTypes, UpdateMedia, bound, NEW stops \in BOOLEAN, FailsLate = {} => ~stops
    PROVE  /\ Piped(control') /\ control'.media = heardMedia'
           /\ Runs(control', stops, FALSE)
<1>1. PICK m : m = Announced(agenda[1])
  OBVIOUS
<1>2. PICK c : c = Control!setMedia(control, m)
  OBVIOUS
<1>3. heardMedia' = m /\ control' = IF m = NoContent THEN c ELSE Resumed(c, state)
  BY <1>1, <1>2 DEF UpdateMedia, Hear
<1>4. m \in Media \cup {NoContent}
  <2>1. NavInv(Tasks)'
    BY HearStep DEF PlayerTypes, UpdateMedia
  <2> QED
    BY <1>3, <2>1 DEF NavInv, ListInv, ListTypeOK
<1>5. /\ Piped(c) /\ c.media = m /\ c.pendingSeek = "none"
      /\ Runs(c, stops, FALSE)
  <2>1. control \in Control!Control
    BY AgendaType
  <2>2. Piped(c) /\ c.media = m /\ c.pendingSeek = "none"
    BY <1>2, <1>4, <2>1, SetMediaFacts
  <2>3. Runs(c, stops, FALSE)
    BY <1>2, <1>4, <2>1, SetMediaRuns
  <2> QED
    BY <2>2, <2>3
<1>6. CASE m = NoContent
  BY <1>3, <1>5, <1>6
<1>7. CASE m # NoContent
  <2>1. PICK d : d = Resumed(c, state)
    OBVIOUS
  <2>2. state \in Control!State
    BY AgendaType
  <2>3. Piped(d) /\ d.media = m /\ Runs(d, stops, FALSE)
    BY <1>5, <2>1, <2>2, ResumedFacts
  <2> QED
    BY <1>3, <1>7, <2>1, <2>3
<1> QED
  BY <1>6, <1>7

LEMMA UpdateMediaKeeps ==
    ASSUME PlayerTypes, TalkInv, UpdateMedia, Len(control'.bus) <= MaxBus
    PROVE  Keeping
<1>1. PICK rest : rest = Tail(agenda)
  OBVIOUS
<1>2. /\ agenda # <<>> /\ agenda[1].do = "update" /\ Hear
      /\ agenda' = rest /\ inSlot' = FALSE /\ bound' = bound
  BY <1>1 DEF UpdateMedia, Hear
<1>3. /\ rest # <<>> => rest[1].do # "stateChanged"
      /\ Ordered(rest)
      /\ Does(agenda, "advanced") <=> Does(rest, "advanced")
      /\ WillStop <=> Does(rest, "sessionStop")
      /\ RunInv => (FailsLate = {} => ~WillStop)
  BY <1>1, <1>2, PopFacts
<1>4. NavInv(Tasks)' /\ (HearInv => HearInv')
  BY <1>2, HearStep DEF PlayerTypes
<1>5. WillStop' <=> WillStop
  BY <1>2, <1>3 DEF WillStop, Does
<1>6. CASE ~bound
  <2>1. UNCHANGED <<control, state, reported, sought>>
    BY <1>6 DEF UpdateMedia
  <2>2. PlayerTypes'
    BY <1>2, <1>4, <2>1 DEF PlayerTypes
  <2>3. TalkInv'
    BY <1>2, <1>3, <1>6, <2>1 DEF TalkInv, AtFront, Knows
  <2>4. Loaded'
    BY <1>2, <1>6 DEF Loaded
  <2>5. RunInv => RunInv'
    BY <1>3, <1>5, <2>1, RunSame
  <2> QED
    BY <1>4, <2>2, <2>3, <2>4, <2>5 DEF Keeping
<1>7. CASE bound
  <2>1. state' = control'.state /\ reported' = control'.state /\ sought' = FALSE
    BY <1>7 DEF UpdateMedia
  <2>2. PICK stops \in BOOLEAN : stops = WillStop
    BY DEF WillStop
  <2>3. Piped(control') /\ control'.media = heardMedia'
    <3>1. FailsLate = {} => ~FALSE
      OBVIOUS
    <3> QED
      BY <1>7, <3>1, UpdatedFacts
  <2>4. PlayerTypes'
    BY <1>2, <1>4, <2>1, <2>3 DEF PlayerTypes, Piped, Control!Control
  <2>5. TalkInv'
    BY <1>2, <1>3, <2>1 DEF TalkInv, AtFront, Knows
  <2>6. Loaded'
    BY <2>3 DEF Loaded
  <2>7. RunInv => RunInv'
    <3> SUFFICES ASSUME RunInv PROVE RunInv'
      OBVIOUS
    <3>1. FailsLate = {} => ~stops
      BY <1>3, <2>2
    <3>2. Runs(control', stops, FALSE)
      BY <1>7, <3>1, UpdatedFacts
    <3>3. WillStop' = stops
      BY <1>5, <2>2 DEF WillStop
    <3> QED
      BY <2>1, <3>1, <3>2, <3>3 DEF RunInv
  <2> QED
    BY <1>4, <2>4, <2>5, <2>6, <2>7 DEF Keeping
<1> QED
  BY <1>6, <1>7 DEF PlayerTypes

-----------------------------------------------------------------------------
(* Every step, and the start.                                              *)

LEMMA PlayerCallsKeep ==
    ASSUME PlayerTypes, TalkInv, PlayerCalls, Len(control'.bus) <= MaxBus
    PROVE  Keeping
<1>1. CASE play
  BY <1>1, PlayKeeps
<1>2. CASE pause
  BY <1>2, PlayOrPauseKeeps DEF pause
<1>3. CASE stop
  BY <1>3, StopKeeps
<1>4. CASE setPosition("later")
  BY <1>4, SetPositionKeeps
<1>5. ASSUME NEW m \in Media, setMedia(m) PROVE Keeping
  BY <1>5, SetMediaKeeps
<1>6. ASSUME NEW playlist \in BOOLEAN, setPlaylist(playlist) PROVE Keeping
  BY <1>6, SetPlaylistKeeps
<1> QED
  BY <1>1, <1>2, <1>3, <1>4, <1>5, <1>6 DEF PlayerCalls

LEMMA PlayerStays ==
    ASSUME PlayerTypes, TalkInv, [PlayerNext]_allVars
    PROVE  Keeping
<1>1. ASSUME PlayerNext PROVE Len(control'.bus) <= MaxBus
  BY <1>1 DEF PlayerNext
<1>2. CASE PlayerNext /\ PlayerCalls
  BY <1>1, <1>2, PlayerCallsKeep
<1>3. CASE PlayerNext /\ ListCalls
  BY <1>3, ListCallsKeep
<1>4. CASE PlayerNext /\ Deliver
  BY <1>4, DeliverIndexKeeps, DeliverMediaKeeps DEF Deliver
<1>5. CASE PlayerNext /\ (HearState \/ Advance \/ Advanced)
  BY <1>5, HearStateKeeps, AdvanceKeeps, AdvancedKeeps
<1>6. CASE PlayerNext /\ UpdateMedia
  BY <1>1, <1>6, UpdateMediaKeeps
<1>7. CASE PlayerNext /\ (PlayAfterJump \/ StopSession)
  BY <1>1, <1>7, PlayAfterJumpKeeps, StopSessionKeeps
<1>8. CASE PlayerNext /\ (TakeMessage \/ TakeError)
  BY <1>1, <1>8, TakeMessageKeeps, TakeErrorKeeps
<1>9. CASE PlayerNext /\ Pipeline
  BY <1>1, <1>9, PipelineKeeps
<1>10. CASE UNCHANGED allVars
  <2>1. /\ UNCHANGED <<navVars, agenda, inSlot, heardMedia, heardIndex, promise>>
        /\ UNCHANGED <<control, state, bound, reported, sought>>
    BY <1>10 DEF allVars, vars, listeners, playerVars
  <2>2. NavInv(Tasks)'
    BY <2>1
       DEF PlayerTypes, NavInv, ListInv, Work, ListTypeOK, CurrentIsItem, HistoryShape,
         itemAt, Count, navVars
  <2>3. PlayerTypes'
    BY <2>1, <2>2 DEF PlayerTypes
  <2>4. TalkInv'
    BY <2>1 DEF TalkInv, AtFront, Knows
  <2>5. HearInv /\ Loaded => HearInv' /\ Loaded'
    BY <2>1 DEF HearInv, CopyIsCurrent, HearsYet, Loaded, HasItem, navVars
  <2>6. RunInv => RunInv'
    BY <2>1 DEF RunInv, WillStop
  <2> QED
    BY <2>3, <2>4, <2>5, <2>6 DEF Keeping
<1> QED
  BY <1>2, <1>3, <1>4, <1>5, <1>6, <1>7, <1>8, <1>9, <1>10 DEF PlayerNext

LEMMA PlayerStart ==
    ASSUME PlayerInit
    PROVE  PlayerTypes /\ TalkInv /\ HearInv /\ Loaded /\ RunInv
<1>1. Init /\ agenda = <<>> /\ inSlot = FALSE /\ heardMedia = NoContent
  BY DEF PlayerInit, Init
<1>2. NavInv(NavTask) /\ HearInv
  BY <1>1, NavStart
<1>3. agenda \in Seq(Tasks)
  BY <1>2, TaskKinds, WiderSeq DEF NavInv, Work
<1>4. NavInv(Tasks)
  BY <1>2, <1>3, TaskKinds DEF NavInv, Work
<1>5. PICK c : c = Control!Unloaded
  OBVIOUS
<1>6. /\ c \in Control!Control /\ c.bus = <<>> /\ c.target = "null" /\ c.at = "null"
      /\ c.place = "start" /\ c.session = "Stopped" /\ c.state = "Stopped"
      /\ c.media = NoContent /\ c.pendingSeek = "none"
  <2>1. <<>> \in Seq(Control!Message)
    OBVIOUS
  <2> QED
    BY <1>5, <2>1 DEF Control!Unloaded, Control!Control, Control!State, Control!Status,
                      Control!Place
<1>7. Piped(c) /\ Len(c.bus) <= MaxBus
  <2>1. Len(c.bus) = 0 /\ \A k \in 1 .. Len(c.bus) : FALSE
    BY <1>6
  <2>2. MaxBus \in Nat
    BY PlayerAssumption
  <2> QED
    BY <1>6, <2>1, <2>2 DEF Piped, Quiet, Levels, Refused
<1>8. /\ control = c /\ state = "Stopped" /\ reported = "Stopped"
      /\ bound = FALSE /\ sought = FALSE
  BY <1>5 DEF PlayerInit
<1>9. PlayerTypes
  BY <1>4, <1>7, <1>8 DEF PlayerTypes, Control!State
<1>10. ~WillStop /\ Len(agenda) = 0
  BY <1>1, NoneStops
<1>11. TalkInv
  BY <1>1, <1>6, <1>8, <1>10 DEF TalkInv, Ordered, AtFront, Knows
<1>12. Runs(c, FALSE, FALSE)
  BY <1>6 DEF Runs, Fresh
<1>13. RunInv
  <2>1. WillStop = FALSE
    BY <1>10 DEF WillStop
  <2> QED
    BY <1>8, <1>12, <2>1 DEF RunInv
<1> QED
  BY <1>2, <1>8, <1>9, <1>11, <1>13 DEF Loaded

-----------------------------------------------------------------------------
(* Who tells the application, and who begins to play.                      *)

LEMMA ReportedBy ==
    ASSUME PlayerNext, reported' # reported
    PROVE  HearState \/ Advanced \/ (UpdateMedia /\ bound)
  BY DEF PlayerNext, PlayerCalls, play, pause, stop, setPosition, setMedia, setPlaylist,
         ListCalls, Deliver, Advance, UpdateMedia, PlayAfterJump, StopSession,
         TakeMessage, TakeError, Pipeline, playerVars

\* An announced item, as far as the status and the place matter.
LEMMA UpdatedStatus ==
    ASSUME PlayerTypes, UpdateMedia, bound
    PROVE  /\ state # "Stopped" => control'.status \notin {"EndOfMedia", "Invalid"}
           /\ control'.state # "Stopped" => control'.place = "start"
<1>1. PICK m : m = Announced(agenda[1])
  OBVIOUS
<1>2. PICK c : c = Control!setMedia(control, m)
  OBVIOUS
<1>3. heardMedia' = m /\ control' = IF m = NoContent THEN c ELSE Resumed(c, state)
  BY <1>1, <1>2 DEF UpdateMedia, Hear
<1>4. m \in Media \cup {NoContent}
  <2>1. NavInv(Tasks)'
    BY HearStep DEF PlayerTypes, UpdateMedia
  <2> QED
    BY <1>3, <2>1 DEF NavInv, ListInv, ListTypeOK
<1>5. control \in Control!Control /\ state \in Control!State
  BY AgendaType
<1>6. /\ Piped(c) /\ c.state = "Stopped" /\ c.place = "start"
      /\ m = NoContent => c.status = "NoMedia"
  BY <1>2, <1>4, <1>5, SetMediaFacts
<1>7. CASE m = NoContent
  BY <1>3, <1>6, <1>7
<1>8. CASE m # NoContent /\ state = "Stopped"
  <2>1. control' = c
    BY <1>3, <1>8 DEF Resumed
  <2> QED
    BY <1>6, <1>8, <2>1
<1>9. CASE m # NoContent /\ state # "Stopped"
  <2>1. PICK d : d = Control!playOrPause(c, state)
    OBVIOUS
  <2>2. control' = d /\ state \in {"Paused", "Playing"}
    BY <1>3, <1>5, <1>9, <2>1 DEF Resumed, Control!State
  <2>3. d.status \notin {"EndOfMedia", "Invalid"} /\ (d = c \/ PlaysAs(d, c, state))
    BY <1>6, <2>1, <2>2, PlayOrPauseFacts
  <2> QED
    BY <1>6, <2>2, <2>3 DEF PlaysAs
<1> QED
  BY <1>7, <1>8, <1>9

LEMMA PlayedBy ==
    ASSUME PlayerTypes, [PlayerNext]_allVars,
           control.state = "Stopped", control'.state = "Playing"
    PROVE  \/ UpdateMedia /\ bound
           \/ control' = Control!playOrPause(control, "Playing")
<1>1. Piped(control) /\ control \in Control!Control /\ PlayerNext
  BY AgendaType DEF allVars, playerVars
<1>2. PICK d : d = control'
  OBVIOUS
<1>3. CASE play
  BY <1>3 DEF play, Becomes, Changes
<1>4. CASE pause
  <2>1. d = Control!playOrPause(control, "Paused")
    BY <1>2, <1>4 DEF pause, Becomes, Changes
  <2>2. d = control \/ PlaysAs(d, control, "Paused")
    BY <1>1, <2>1, PlayOrPauseFacts
  <2> QED
    BY <1>2, <2>2 DEF PlaysAs
<1>5. CASE stop
  <2>1. d = Control!stop(control)
    BY <1>2, <1>5 DEF stop, Becomes, Changes
  <2> QED
    BY <1>1, <1>2, <2>1, StopFacts
<1>6. CASE setPosition("later")
  <2>1. d = Control!setPosition(control, "later") /\ "later" \in Control!Place
    BY <1>2, <1>6 DEF setPosition, Changes, Control!Place
  <2> QED
    BY <1>1, <1>2, <2>1, SetPositionFacts
<1>7. ASSUME NEW c \in Control!Control, NEW m \in Media \cup {NoContent},
             d = Control!setMedia(c, m)
      PROVE  FALSE
  BY <1>2, <1>7, SetMediaFacts
<1>8. ASSUME NEW m \in Media, setMedia(m) PROVE FALSE
  <2>1. PICK c : c = IF bound /\ ~Keeps(m) THEN Control!setMedia(control, NoContent) ELSE control
    OBVIOUS
  <2>2. d = Control!setMedia(c, m)
    BY <1>2, <1>8, <2>1 DEF setMedia, Loads, Changes
  <2>3. c \in Control!Control
    <3>1. ASSUME c = Control!setMedia(control, NoContent) PROVE c \in Control!Control
      BY <1>1, <3>1, SetMediaFacts DEF Piped
    <3> QED
      BY <1>1, <2>1, <3>1
  <2> QED
    BY <1>7, <2>2, <2>3
<1>9. ASSUME NEW playlist \in BOOLEAN, setPlaylist(playlist) PROVE FALSE
  <2>1. PICK m : m = IF playlist THEN itemAt(currentPos) ELSE NoContent
    OBVIOUS
  <2>2. d = Control!setMedia(control, m)
    BY <1>2, <1>9, <2>1 DEF setPlaylist, Loads, Changes
  <2>3. m \in Media \cup {NoContent}
    BY <2>1 DEF PlayerTypes, NavInv, ListInv, ListTypeOK, CurrentIsItem
  <2> QED
    BY <1>1, <1>7, <2>2, <2>3
<1>10. CASE PlayAfterJump
  BY <1>10 DEF PlayAfterJump, Becomes, Changes
<1>11. CASE StopSession
  <2>1. d = Control!sessionStop(control)
    BY <1>2, <1>11 DEF StopSession, Becomes, Changes
  <2> QED
    BY <1>1, <1>2, <2>1, SessionStopFacts
<1>12. CASE TakeMessage \/ TakeError
  <2>1. PICK t : t = Control!Taken
    OBVIOUS
  <2>2. t = [control EXCEPT !.bus = Tail(@)] /\ control.bus # <<>>
    BY <1>12, <2>1 DEF Control!Taken, TakeMessage, TakeError
  <2>3. /\ Piped(t) /\ t.state = control.state /\ t.uri = control.uri
        /\ t.target = control.target /\ control.bus[1] \in Control!Message
        /\ control.bus[1] # "error" => control.target # "null"
        /\ control.bus[1] \in {"low", "full"} => control.uri \in Buffered
    BY <1>1, <2>2, TakenFacts DEF SameMedia
  <2>4. CASE TakeMessage
    <3>1. PICK message : message = control.bus[1]
      OBVIOUS
    <3>2. d = Control!Handle(t, message) /\ message # "error"
      BY <1>2, <2>1, <2>4, <3>1 DEF TakeMessage, Becomes, Changes
    <3>3. /\ message \in Control!Message \ {"error"} /\ t.target # "null"
          /\ message \in {"low", "full"} => t.uri \in Buffered
      BY <2>3, <3>1, <3>2
    <3>4. Told(d, t)
      BY <2>3, <3>2, <3>3, HandleFacts
    <3> QED
      BY <1>2, <2>3, <3>4 DEF Told
  <2>5. CASE TakeError
    <3>1. d = Control!handleInvalidMedia(t)
      BY <1>2, <2>1, <2>5 DEF TakeError, Becomes, Changes
    <3> QED
      BY <1>2, <2>3, <3>1, InvalidFacts
  <2> QED
    BY <1>12, <2>4, <2>5
<1>13. CASE Pipeline
  BY <1>1, <1>13, PipelineFacts DEF Pipeline, Runner, Unheard
<1>14. CASE ListCalls \/ Deliver \/ HearState \/ Advance \/ Advanced
  BY <1>14 DEF ListCalls, Deliver, HearState, Advance, Advanced, Report, playerVars
<1>15. CASE UpdateMedia
  BY <1>15 DEF UpdateMedia
<1> QED
  BY <1>1, <1>3, <1>4, <1>5, <1>6, <1>8, <1>9, <1>10, <1>11, <1>12, <1>13, <1>14, <1>15
     DEF PlayerNext, PlayerCalls

-----------------------------------------------------------------------------
\* Every variable of the player, the control and the pipeline keeps its type,
\* whatever is called, delivered and told.
THEOREM PlayerTypeCorrect == PlayerSpec => []PlayerTypeOK
<1>1. PlayerInit => PlayerTypes /\ TalkInv
  BY PlayerStart
<1>2. PlayerTypes /\ TalkInv /\ [PlayerNext]_allVars => PlayerTypes' /\ TalkInv'
  BY PlayerStays DEF Keeping
<1>3. PlayerTypes => PlayerTypeOK
  <2> SUFFICES ASSUME PlayerTypes PROVE PlayerTypeOK
    OBVIOUS
  <2>1. agenda \in Seq(NavTask \cup PlayerTask)
    BY DEF PlayerTypes, NavInv, Work, Tasks
  <2> QED
    BY <2>1 DEF PlayerTypes, PlayerTypeOK, Piped, Control!ControlTypeOK
<1> QED
  BY <1>1, <1>2, <1>3, PTL DEF PlayerSpec

\* Between calls the player knows the state of the control and so does the
\* application (_q_stateChanged, _q_updateMedia), whatever the slots have called
\* while the player was in the middle of next() or setMedia().
THEOREM StateReportedHolds == PlayerSpec => []StateReported
<1>1. PlayerInit => PlayerTypes /\ TalkInv
  BY PlayerStart
<1>2. PlayerTypes /\ TalkInv /\ [PlayerNext]_allVars => PlayerTypes' /\ TalkInv'
  BY PlayerStays DEF Keeping
<1>3. PlayerTypes /\ TalkInv => StateReported
  BY WaitingNone DEF StateReported, TalkInv
<1> QED
  BY <1>1, <1>2, <1>3, PTL DEF PlayerSpec

\* Between calls the control has the media that is current in the playlist, if
\* slots do not call while a changed item is announced to them
\* (currentMediaChanged, setPlaylist, setMedia).
THEOREM PlaysCurrentHolds ==
    ASSUME SlotsOnChange = FALSE
    PROVE  PlayerSpec => []PlaysCurrent
<1> DEFINE I == PlayerTypes /\ TalkInv /\ HearInv /\ Loaded
<1>1. PlayerInit => I
  BY PlayerStart
<1>2. I /\ [PlayerNext]_allVars => I'
  <2>1. I /\ [PlayerNext]_allVars => Keeping
    BY PlayerStays
  <2> QED
    BY <2>1 DEF Keeping
<1>3. I => PlaysCurrent
  <2> SUFFICES ASSUME I, agenda = <<>>, bound PROVE control.media = currentItem
    BY DEF PlaysCurrent
  <2>1. ~HasItem(agenda)
    <3>1. \A k \in 1 .. Len(agenda) : FALSE
      OBVIOUS
    <3> QED
      BY <3>1 DEF HasItem
  <2>2. heardMedia = currentItem
    BY <2>1 DEF HearInv, HearsYet, HasItem
  <2> QED
    BY <2>1, <2>2 DEF Loaded
<1> HIDE DEF I
<1> QED
  BY <1>1, <1>2, <1>3, PTL DEF PlayerSpec

\* Between calls the pipeline of a player that plays was asked to play, and that
\* of one that does not was not, but for a low buffer and for the stop() that ends
\* the error path (playOrPause, stop, setMedia, busMessage).
THEOREM PlayingRunsHolds == PlayerSpec => []PlayingRuns
<1> DEFINE I == PlayerTypes /\ TalkInv /\ RunInv
<1>1. PlayerInit => I
  BY PlayerStart
<1>2. I /\ [PlayerNext]_allVars => I'
  <2>1. I /\ [PlayerNext]_allVars => Keeping
    BY PlayerStays
  <2> QED
    BY <2>1 DEF Keeping
<1>3. I => PlayingRuns
  BY NoneStops DEF RunInv, Runs, PlayingRuns, StoppedUnderneath
<1> HIDE DEF I
<1> QED
  BY <1>1, <1>2, <1>3, PTL DEF PlayerSpec

\* That an item has ended, or cannot be played on, is no reason for the
\* application to hear of a stop (_q_stateChanged, _q_updateMedia).
THEOREM PlaysThroughHolds == PlayerSpec => PlaysThrough
<1>1. PlayerInit => PlayerTypes /\ TalkInv
  BY PlayerStart
<1>2. PlayerTypes /\ TalkInv /\ [PlayerNext]_allVars => PlayerTypes' /\ TalkInv'
  BY PlayerStays DEF Keeping
<1>3. ASSUME PlayerTypes, TalkInv, PlayerNext,
             reported' # reported, reported' = "Stopped", bound
      PROVE  control'.status \notin {"EndOfMedia", "Invalid"}
  <2>1. reported = state
    BY <1>3 DEF TalkInv
  <2>2. CASE HearState
    <3>1. /\ ~Over(agenda[1].state) /\ reported' = agenda[1].state /\ control' = control
      BY <2>2 DEF HearState, Report
    <3> QED
      BY <1>3, <2>1, <3>1 DEF Over
  <2>3. CASE Advanced
    <3>1. agenda # <<>> /\ agenda[1].do = "advanced" /\ reported' = control.state
      BY <2>3 DEF Advanced, Report
    <3>2. state = control.state
      BY <1>3, <3>1 DEF TalkInv, AtFront
    <3> QED
      BY <1>3, <2>1, <3>1, <3>2
  <2>4. CASE UpdateMedia
    BY <1>3, <2>1, <2>4, UpdatedStatus
  <2> QED
    BY <1>3, <2>2, <2>3, <2>4, ReportedBy
<1>4. PlayerTypes /\ TalkInv /\ [PlayerNext]_allVars =>
         [ reported' # reported /\ reported' = "Stopped" /\ bound
             => control'.status \notin {"EndOfMedia", "Invalid"} ]_allVars
  BY <1>3
<1> QED
  BY <1>1, <1>2, <1>4, PTL DEF PlayerSpec, PlaysThrough

\* Playing begins at the start after a stop, the end of the media and an error,
\* unless a position was set or waits to be sought, or a slot plays on before the
\* error path has come to its stop() (m_seekToStartPending).
THEOREM BeginsAtStartHolds == PlayerSpec => BeginsAtStart
<1> DEFINE I == PlayerTypes /\ TalkInv /\ RunInv
<1>1. PlayerInit => I
  BY PlayerStart
<1>2. I /\ [PlayerNext]_allVars => I'
  <2>1. I /\ [PlayerNext]_allVars => Keeping
    BY PlayerStays
  <2> QED
    BY <2>1 DEF Keeping
<1>3. ASSUME I, [PlayerNext]_allVars,
             control.state = "Stopped", control'.state = "Playing", ~sought, ~WillStop
      PROVE  control'.place = "start"
  <2>1. CASE UpdateMedia /\ bound
    BY <1>3, <2>1, UpdatedStatus
  <2>2. CASE control' = Control!playOrPause(control, "Playing")
    <3>1. PICK d : d = control'
      OBVIOUS
    <3>2. Piped(control) /\ d = Control!playOrPause(control, "Playing")
      BY <1>3, <2>2, <3>1 DEF PlayerTypes
    <3>3. d = control \/ PlaysAs(d, control, "Playing")
      BY <3>2, PlayOrPauseFacts
    <3>4. Fresh(control)
      BY <1>3 DEF RunInv, Runs
    <3> QED
      BY <1>3, <3>1, <3>3, <3>4 DEF PlaysAs, Fresh
  <2> QED
    BY <1>3, <2>1, <2>2, PlayedBy
<1>4. I /\ [PlayerNext]_allVars =>
         [ /\ control.state = "Stopped" /\ control'.state = "Playing"
           /\ ~sought
           => control'.place = "start" \/ WillStop ]_allVars
  BY <1>3
<1> HIDE DEF I
<1> QED
  BY <1>1, <1>2, <1>4, PTL DEF PlayerSpec, BeginsAtStart
=============================================================================
