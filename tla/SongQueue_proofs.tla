-------------------------- MODULE SongQueue_proofs --------------------------
(***************************************************************************)
(* Proofs about the list of songs the GUI keeps: that it takes none off    *)
(* too early, keeps them in order, and lists what the player will play;    *)
(* however many songs, clicks and changes there are.                       *)
(***************************************************************************)
EXTENDS SongQueue, SequenceTheorems, TLAPS

\* The player is ahead of the page: a change is to be seen or being handled.
Unseen == pc = "changed" \/ currentsong \notin {playing, NoSong}

\* Every song off the list, and the change not seen yet, if any, is paid for
\* by a step forward or by a press of "Prev song" that still counts.
Paid ==
  /\ removed <= forward
  /\ Unseen => removed + 1 <= forward + prev_pressed

Balance ==
  /\ forward \in Nat /\ prev_pressed \in Nat /\ removed \in Nat
  /\ failed \in BOOLEAN
  /\ ~ failed => Paid

\* Nothing is off the list at the start.
LEMMA BalanceInit == Init => Balance
<1> SUFFICES ASSUME Init
             PROVE  Balance
    OBVIOUS
<1>1. forward \in Nat /\ prev_pressed \in Nat /\ removed \in Nat /\ Paid
    BY DEF Init, Paid, Unseen
<1>2. failed \in BOOLEAN
    BY Zenon DEF Init
<1> QED BY <1>1, <1>2 DEF Balance

\* A step forward pays for the change it makes.
LEMMA GoOnBalance ==
  ASSUME Balance, GoOn, UNCHANGED <<currentsong, list, prev_pressed, pc, failed>>
  PROVE  Balance'
<1>1. forward' = forward + 1
    BY DEF GoOn
<1>2. removed' = removed /\ prev_pressed' = prev_pressed /\ failed' = failed
    BY DEF list
<1>3. forward \in Nat /\ prev_pressed \in Nat /\ removed \in Nat /\ failed \in BOOLEAN
    BY DEF Balance
<1>4. forward' \in Nat /\ prev_pressed' \in Nat /\ removed' \in Nat /\ failed' \in BOOLEAN
    BY <1>1, <1>2, <1>3
<1>5. ASSUME ~ failed
      PROVE  Paid'
  <2>1. removed <= forward
      BY <1>5 DEF Balance, Paid
  <2>2. removed' <= forward' /\ removed' + 1 <= forward' + prev_pressed'
      BY <1>1, <1>2, <1>3, <2>1
  <2> QED BY <2>2 DEF Paid
<1> QED BY <1>2, <1>4, <1>5 DEF Balance

\* A step that touches neither the count of songs nor what the page has not
\* seen leaves the balance alone.
LEMMA IdleBalance ==
  ASSUME Balance, UNCHANGED <<forward, prev_pressed, removed>>, failed' \in BOOLEAN,
         failed => failed', Unseen' => Unseen
  PROVE  Balance'
BY DEF Balance, Paid

\* Handling a change takes a song off the list, or ticks off a press.
LEMMA HandleBalance ==
  ASSUME Balance, HandleChange
  PROVE  Balance'
<1>1. Unseen
    BY DEF HandleChange, Unseen
<1>2. forward' = forward
    BY DEF HandleChange, player
<1>3. forward \in Nat /\ prev_pressed \in Nat /\ removed \in Nat /\ failed \in BOOLEAN
    BY DEF Balance
<1>4. /\ failed' \in BOOLEAN
      /\ ~ failed' => ~ failed /\ ~ Unseen'
    BY <1>3 DEF HandleChange, update_info, Unseen, player
<1>5. \/ prev_pressed = 0 /\ prev_pressed' = 0 /\ removed' \in {removed, removed + 1}
      \/ prev_pressed > 0 /\ prev_pressed' = prev_pressed - 1 /\ removed' = removed
    BY <1>3 DEF HandleChange, remove_song
<1>6. prev_pressed' \in Nat /\ removed' \in Nat
    BY <1>3, <1>5
<1>7. ASSUME ~ failed'
      PROVE  Paid'
  <2>1. removed <= forward /\ removed + 1 <= forward + prev_pressed
      BY <1>1, <1>4, <1>7 DEF Balance, Paid
  <2>2. removed' <= forward'
      BY <1>2, <1>3, <1>5, <2>1
  <2> QED BY <1>4, <1>7, <2>2 DEF Paid
<1> QED BY <1>2, <1>3, <1>4, <1>6, <1>7 DEF Balance

\* No step upsets the balance.
LEMMA BalanceStep == Balance /\ [Next]_vars => Balance'
<1> SUFFICES ASSUME Balance, [Next]_vars
             PROVE  Balance'
    OBVIOUS
<1>a. failed \in BOOLEAN
    BY DEF Balance
<1>1. CASE SongEnds
    BY <1>1, GoOnBalance DEF SongEnds
<1>2. CASE skip_song
    BY <1>2, GoOnBalance DEF skip_song
<1>3. CASE prev_song
  <2>1. \/ prev_pressed' = prev_pressed + 1 /\ failed' = failed
        \/ prev_pressed' = prev_pressed /\ failed' = TRUE
      BY <1>3 DEF prev_song
  <2>2. forward' = forward /\ removed' = removed
      BY <1>3 DEF prev_song, list
  <2>3. failed' \in BOOLEAN
      BY <1>a, <2>1, Zenon
  <2>4. prev_pressed' \in {prev_pressed, prev_pressed + 1}
      BY <2>1, Zenon
  <2>5. ~ failed' => ~ failed /\ prev_pressed' = prev_pressed + 1
      BY <2>1, Zenon
  <2>6. forward \in Nat /\ prev_pressed \in Nat /\ removed \in Nat
      BY DEF Balance
  <2>7. ASSUME ~ failed'
        PROVE  Paid'
    <3>1. removed <= forward
        BY <2>7, <2>5 DEF Balance, Paid
    <3>2. removed' <= forward' /\ removed' + 1 <= forward' + prev_pressed'
        BY <2>2, <2>5, <2>6, <2>7, <3>1
    <3> QED BY <3>2 DEF Paid
  <2>8. prev_pressed' \in Nat
      BY <2>4, <2>6
  <2> QED BY <2>2, <2>3, <2>6, <2>7, <2>8 DEF Balance
<1>4. ASSUME NEW song \in Songs, add_to_que(song)
      PROVE  Balance'
  <2>1. /\ UNCHANGED <<forward, prev_pressed, removed, pc, currentsong, playing>>
        /\ failed' \in {failed, TRUE}
      BY <1>4 DEF add_to_que
  <2> QED BY <1>a, <2>1, IdleBalance DEF Unseen
<1>5. CASE show_page
  <2>1. UNCHANGED <<forward, prev_pressed, removed, pc, playing>>
      BY <1>5 DEF show_page, player, list
  <2>2. /\ currentsong' \in {currentsong, playing}
        /\ failed' = failed \/ failed' = TRUE
      BY <1>5 DEF show_page, update_info
  <2>3. Unseen' => Unseen
      BY <2>1, <2>2 DEF Unseen
  <2>4. failed' \in BOOLEAN
    <3>1. CASE failed' = failed
        BY <1>a, <3>1, Zenon
    <3>2. CASE failed' = TRUE
        BY <3>2, Zenon
    <3> QED BY <2>2, <3>1, <3>2, Zenon
  <2>5. failed => failed'
      BY <2>2, Zenon
  <2> QED BY <2>1, <2>3, <2>4, <2>5, IdleBalance
<1>6. CASE LeavePage
    BY <1>a, <1>6, IdleBalance DEF LeavePage, Unseen, player, list, flags
<1>7. CASE SeeChange
  <2>1. Unseen
      BY <1>7 DEF SeeChange, Unseen
  <2>2. UNCHANGED <<forward, prev_pressed, removed, failed>>
      BY <1>7 DEF SeeChange, player, list, flags
  <2> QED BY <1>a, <2>1, <2>2, IdleBalance
<1>8. CASE HandleChange
    BY <1>8, HandleBalance
<1>9. CASE UNCHANGED vars
    BY <1>a, <1>9, IdleBalance DEF vars, player, list, flags, Unseen
<1> QED BY <1>1, <1>2, <1>3, <1>4, <1>5, <1>6, <1>7, <1>8, <1>9 DEF Next

\* As long as requests are answered, the list loses no more songs than the
\* player went on to next ones: pressing "Prev song" never makes it skip.
THEOREM NoSkip == Spec => []NoSongSkipped
<1>1. Init => Balance
    BY BalanceInit
<1>2. Balance /\ [Next]_vars => Balance'
    BY BalanceStep
<1>3. Balance => NoSongSkipped
    BY DEF Balance, Paid, NoSongSkipped
<1> QED BY <1>1, <1>2, <1>3, PTL DEF Spec

-----------------------------------------------------------------------------
(***************************************************************************)
(* The list is always the newest of the songs ever added. Only with that   *)
(* is the type correct: no more songs are taken off than were added.       *)
(***************************************************************************)

ListInv == TypeOK /\ QueueIsNewest

\* What an addition does to the list and to its history.
LEMMA AddNewest ==
  ASSUME NEW S, NEW all \in Seq(S), NEW n \in 0 .. Len(all), NEW x \in S
  PROVE  SubSeq(Append(all, x), n + 1, Len(Append(all, x)))
           = Append(SubSeq(all, n + 1, Len(all)), x)
<1> DEFINE more == Append(all, x)
           rest == SubSeq(all, n + 1, Len(all))
           left == SubSeq(more, n + 1, Len(more))
<1>1. /\ more \in Seq(S) /\ Len(more) = Len(all) + 1 /\ more[Len(all) + 1] = x
      /\ \A i \in 1 .. Len(all) : more[i] = all[i]
  BY AppendProperties
<1>2. /\ rest \in Seq(S) /\ Len(rest) = Len(all) - n
      /\ \A i \in 1 .. Len(all) - n : rest[i] = all[n + i]
  OBVIOUS
<1>3. /\ left \in Seq(S) /\ Len(left) = Len(all) + 1 - n
      /\ \A i \in 1 .. Len(all) + 1 - n : left[i] = more[n + i]
  <2> HIDE DEF more
  <2> QED
    BY <1>1
<1>4. /\ Append(rest, x) \in Seq(S) /\ Len(Append(rest, x)) = Len(rest) + 1
      /\ \A i \in 1 .. Len(rest) : Append(rest, x)[i] = rest[i]
      /\ Append(rest, x)[Len(rest) + 1] = x
  <2> HIDE DEF rest
  <2> QED
    BY <1>2, AppendProperties
<1> HIDE DEF more, rest, left
<1>5. \A i \in 1 .. Len(left) : left[i] = Append(rest, x)[i]
  <2> SUFFICES ASSUME NEW i \in 1 .. Len(left) PROVE left[i] = Append(rest, x)[i]
    OBVIOUS
  <2>1. Len(all) \in Nat /\ n \in Nat /\ i \in 1 .. Len(all) + 1 - n
    BY <1>3
  <2>2. left[i] = more[n + i]
    BY <1>3, <2>1
  <2>3. CASE i = Len(all) + 1 - n
    <3>1. n + i = Len(all) + 1 /\ Len(rest) + 1 = i
      BY <1>2, <2>1, <2>3
    <3>2. left[i] = x /\ Append(rest, x)[i] = x
      BY <1>1, <1>4, <2>2, <3>1
    <3> QED
      BY <3>2
  <2>4. CASE i # Len(all) + 1 - n
    <3>1. i \in 1 .. Len(all) - n /\ n + i \in 1 .. Len(all) /\ i \in 1 .. Len(rest)
      BY <1>2, <2>1, <2>4
    <3>2. left[i] = all[n + i]
      BY <1>1, <2>2, <3>1
    <3>3. Append(rest, x)[i] = all[n + i]
      BY <1>2, <1>4, <3>1
    <3> QED
      BY <3>2, <3>3
  <2> QED
    BY <2>3, <2>4
<1>6. Len(left) = Len(Append(rest, x))
  BY <1>2, <1>3, <1>4
<1>7. left = Append(rest, x)
  BY <1>3, <1>4, <1>5, <1>6, SeqEqual
<1> QED
  BY <1>7 DEF left, more, rest

\* What a removal does to them.
LEMMA RemoveOldest ==
  ASSUME NEW S, NEW all \in Seq(S), NEW n \in 0 .. Len(all),
         SubSeq(all, n + 1, Len(all)) # <<>>
  PROVE  /\ n + 1 \in 0 .. Len(all)
         /\ Tail(SubSeq(all, n + 1, Len(all))) = SubSeq(all, n + 2, Len(all))
OBVIOUS

LEMMA ListInvInit == Init => ListInv
<1> SUFFICES ASSUME Init PROVE ListInv
  OBVIOUS
<1>1. failed \in BOOLEAN /\ hurried \in BOOLEAN
  BY Zenon DEF Init
<1>2. SubSeq(added, removed + 1, Len(added)) = <<>>
  BY DEF Init
<1> QED
  BY <1>1, <1>2, SongQueueAssumption DEF Init, ListInv, TypeOK, QueueIsNewest

\* What no step but one on the list changes.
LEMMA ListRests ==
  ASSUME ListInv, UNCHANGED list,
         playing' \in Songs, upNext' \in Seq(Songs),
         page' \in {"spotify", "search", "other"}, currentsong' \in Songs \cup {NoSong},
         pc' \in {"idle", "changed"}, failed' \in BOOLEAN, hurried' \in BOOLEAN,
         \/ UNCHANGED <<events, forward, prev_pressed, repeats>>
         \/ /\ Event /\ forward' \in {forward, forward + 1}
            /\ prev_pressed' \in {prev_pressed, prev_pressed + 1}
            /\ repeats' \in {repeats, repeats + 1}
  PROVE  ListInv'
<1>1. queue' = queue /\ added' = added /\ removed' = removed
  BY DEF list
<1>2. /\ events' \in 0 .. MaxEvents /\ forward' \in 0 .. events'
      /\ prev_pressed' \in 0 .. events' /\ repeats' \in 0 .. events'
  BY SongQueueAssumption DEF ListInv, TypeOK, Event
<1> QED
  BY <1>1, <1>2 DEF ListInv, TypeOK, QueueIsNewest

\* The player goes on to a song that is one, and so are those behind it.
LEMMA PlayerGoesOn ==
  ASSUME TypeOK, GoOn
  PROVE  /\ playing' \in Songs /\ upNext' \in Seq(Songs)
         /\ hurried' \in BOOLEAN /\ forward' = forward + 1
         /\ repeats' \in {repeats, repeats + 1}
<1>1. hurried' \in BOOLEAN
  BY Zenon DEF GoOn, PlayNext, Ready
<1>2. /\ repeats' \in {repeats, repeats + 1}
      /\ \/ upNext # <<>> /\ playing' = Head(upNext) /\ upNext' = Tail(upNext)
         \/ upNext' = <<>> /\ playing' \in Songs
  BY Zenon DEF GoOn, PlayNext
<1>3. playing' \in Songs /\ upNext' \in Seq(Songs)
  <2>1. upNext \in Seq(Songs)
    BY Zenon DEF TypeOK
  <2>2. upNext # <<>> => Head(upNext) \in Songs /\ Tail(upNext) \in Seq(Songs)
    BY <2>1
  <2>3. <<>> \in Seq(Songs)
    OBVIOUS
  <2> QED
    BY <1>2, <2>2, <2>3, Zenon
<1>4. forward' = forward + 1
  BY Zenon DEF GoOn
<1> QED
  BY <1>1, <1>2, <1>3, <1>4

\* An answer brings the song that plays, or none comes.
LEMMA AnswerOrNone ==
  ASSUME TypeOK, update_info
  PROVE  currentsong' \in Songs \cup {NoSong} /\ failed' \in BOOLEAN
<1>1. failed' \in BOOLEAN
  <2>1. CASE failed' = failed
    BY <2>1, Zenon DEF TypeOK
  <2>2. CASE failed' = TRUE
    BY <2>2, Zenon
  <2> QED
    BY <2>1, <2>2, Zenon DEF update_info
<1>2. currentsong' \in Songs \cup {NoSong}
  BY DEF TypeOK, update_info
<1> QED
  BY <1>1, <1>2

LEMMA ListInvNext == ListInv /\ [Next]_vars => ListInv'
<1> SUFFICES ASSUME ListInv, [Next]_vars PROVE ListInv'
  OBVIOUS
<1>0. TypeOK /\ failed \in BOOLEAN /\ hurried \in BOOLEAN
  BY DEF ListInv, TypeOK
<1>1. CASE SongEnds
  <2>1. Event /\ GoOn /\ UNCHANGED <<page, currentsong, list, prev_pressed, pc, failed>>
    BY <1>1, Zenon DEF SongEnds
  <2>2. failed' \in BOOLEAN
    BY <1>0, <2>1, Zenon
  <2> QED
    BY <1>0, <2>1, <2>2, PlayerGoesOn, ListRests DEF TypeOK
<1>2. CASE skip_song
  <2>1. Event /\ GoOn /\ UNCHANGED <<page, currentsong, list, prev_pressed, pc, failed>>
    BY <1>2, Zenon DEF skip_song
  <2>2. failed' \in BOOLEAN
    BY <1>0, <2>1, Zenon
  <2> QED
    BY <1>0, <2>1, <2>2, PlayerGoesOn, ListRests DEF TypeOK
<1>3. CASE prev_song
  <2>1. /\ Event /\ UNCHANGED <<upNext, forward, page, currentsong, list, pc>>
        /\ playing' \in Songs /\ prev_pressed' \in {prev_pressed, prev_pressed + 1}
        /\ repeats' \in {repeats, repeats + 1}
    BY <1>3 DEF prev_song, PlayNext
  <2>2. hurried' \in BOOLEAN
    BY <1>3, Zenon DEF prev_song, PlayNext, Ready
  <2>3. failed' \in BOOLEAN
    BY <1>0, <1>3, Zenon DEF prev_song
  <2> QED
    BY <1>0, <2>1, <2>2, <2>3, ListRests DEF TypeOK
<1>4. ASSUME NEW song \in Songs, add_to_que(song)
      PROVE  ListInv'
  <2>1. /\ queue' = Append(queue, song) /\ added' = Append(added, song)
        /\ UNCHANGED <<playing, forward, page, currentsong, removed, prev_pressed, pc, repeats>>
        /\ upNext' \in {upNext, Append(upNext, song)} /\ Room /\ Event
    BY <1>4 DEF add_to_que
  <2>2. failed' \in BOOLEAN /\ hurried' \in BOOLEAN
    BY <1>0, <1>4, Zenon DEF add_to_que, Ready
  <2>3. queue' \in Seq(Songs) /\ Len(queue') <= Labels
    BY <1>0, <2>1, SongQueueAssumption DEF Room, TypeOK
  <2>4. added' \in Seq(Songs) /\ removed' \in 0 .. Len(added') /\ upNext' \in Seq(Songs)
    <3>1. added' \in Seq(Songs) /\ Len(added') = Len(added) + 1 /\ Len(added) \in Nat
      BY <1>0, <2>1, AppendProperties DEF TypeOK
    <3>2. removed' \in 0 .. Len(added')
      BY <1>0, <2>1, <3>1 DEF TypeOK
    <3>3. upNext' \in Seq(Songs)
      <4>1. CASE upNext' = upNext
        BY <1>0, <4>1 DEF TypeOK
      <4>2. CASE upNext' = Append(upNext, song)
        BY <1>0, <4>2, AppendProperties DEF TypeOK
      <4> QED
        BY <2>1, <4>1, <4>2
    <3> QED
      BY <3>1, <3>2, <3>3
  <2>5. /\ events' \in 0 .. MaxEvents /\ forward' \in 0 .. events'
        /\ prev_pressed' \in 0 .. events' /\ repeats' \in 0 .. events'
    BY <1>0, <2>1, SongQueueAssumption DEF TypeOK, Event
  <2>6. QueueIsNewest'
    BY <1>0, <2>1, AddNewest DEF ListInv, QueueIsNewest, TypeOK
  <2> QED
    BY <1>0, <2>1, <2>2, <2>3, <2>4, <2>5, <2>6 DEF ListInv, TypeOK
<1>5. CASE show_page
  <2>1. /\ UNCHANGED <<player, list, prev_pressed, pc, repeats, events>>
        /\ page' = "spotify" /\ update_info
    BY <1>5, Zenon DEF show_page
  <2>2. hurried' \in BOOLEAN
    BY <1>5, Zenon DEF show_page, Ready
  <2> QED
    BY <1>0, <2>1, <2>2, AnswerOrNone, ListRests DEF TypeOK, player
<1>6. CASE LeavePage
  <2>1. /\ UNCHANGED <<player, currentsong, list, prev_pressed, pc, repeats, events>>
        /\ page' \in {"search", "other"}
    BY <1>6 DEF LeavePage, flags
  <2>2. failed' \in BOOLEAN /\ hurried' \in BOOLEAN
    BY <1>0, <1>6, Zenon DEF LeavePage, flags
  <2> QED
    BY <1>0, <2>1, <2>2, ListRests DEF TypeOK, player
<1>7. CASE SeeChange
  <2>1. /\ UNCHANGED <<player, page, currentsong, list, prev_pressed, repeats, events>>
        /\ pc' = "changed"
    BY <1>7, Zenon DEF SeeChange, flags
  <2>2. failed' \in BOOLEAN /\ hurried' \in BOOLEAN
    BY <1>0, <1>7, Zenon DEF SeeChange, flags
  <2> QED
    BY <1>0, <2>1, <2>2, ListRests DEF TypeOK, player
<1>8. CASE HandleChange
  <2>1. /\ UNCHANGED <<player, page, added, repeats, events>> /\ update_info /\ pc' = "idle"
        /\ \/ prev_pressed = 0 /\ remove_song /\ prev_pressed' = 0
           \/ UNCHANGED <<queue, removed>> /\ prev_pressed' \in {prev_pressed, prev_pressed - 1}
              /\ prev_pressed' \in Nat
    BY <1>0, <1>8 DEF HandleChange, TypeOK
  <2>2. hurried' \in BOOLEAN
    BY <1>0, <1>8, Zenon DEF HandleChange
  <2>3. currentsong' \in Songs \cup {NoSong} /\ failed' \in BOOLEAN
    BY <1>0, <2>1, AnswerOrNone
  <2>4. prev_pressed' \in 0 .. events
    BY <1>0, <2>1 DEF TypeOK
  <2>5. /\ queue' \in Seq(Songs) /\ Len(queue') <= Labels
        /\ removed' \in 0 .. Len(added') /\ QueueIsNewest'
    <3>1. CASE remove_song
      <4>1. queue # <<>> /\ queue' = Tail(queue) /\ removed' = removed + 1 /\ added' = added
        BY <2>1, <3>1 DEF remove_song
      <4>2. removed + 1 \in 0 .. Len(added) /\ QueueIsNewest'
        BY <1>0, <4>1, RemoveOldest DEF ListInv, TypeOK, QueueIsNewest
      <4>3. queue' \in Seq(Songs) /\ Len(queue') <= Labels
        BY <1>0, <4>1, SongQueueAssumption DEF TypeOK
      <4> QED
        BY <4>1, <4>2, <4>3
    <3>2. CASE UNCHANGED <<queue, removed>>
      BY <2>1, <3>2 DEF ListInv, TypeOK, QueueIsNewest
    <3> QED
      BY <2>1, <3>1, <3>2
  <2> QED
    BY <1>0, <2>1, <2>2, <2>3, <2>4, <2>5 DEF ListInv, TypeOK, player
<1>9. CASE UNCHANGED vars
  <2>1. UNCHANGED <<player, page, currentsong, list, prev_pressed, pc, flags, events>>
    BY <1>9, Zenon DEF vars
  <2>2. failed' \in BOOLEAN /\ hurried' \in BOOLEAN
    BY <1>0, <2>1, Zenon DEF flags
  <2> QED
    BY <1>0, <2>1, <2>2, ListRests DEF TypeOK, player, flags
<1> QED
  BY <1>1, <1>2, <1>3, <1>4, <1>5, <1>6, <1>7, <1>8, <1>9 DEF Next

\* Whatever fails, the list fits its places, and everything is of its type.
THEOREM ListFits == Spec => []TypeOK
<1>1. ListInv => TypeOK
  BY DEF ListInv
<1> QED
  BY <1>1, ListInvInit, ListInvNext, PTL DEF Spec

\* Songs leave the list in the order they were added, whatever fails.
THEOREM OldestGoesFirst == Spec => []QueueIsNewest
<1>1. ListInv => QueueIsNewest
  BY DEF ListInv
<1> QED
  BY <1>1, ListInvInit, ListInvNext, PTL DEF Spec

-----------------------------------------------------------------------------
(***************************************************************************)
(* The list and the player's queue. While requests are answered and the    *)
(* program deals with each change before the next, the player's queue is   *)
(* the end of the list. The songs before it, already played, and the       *)
(* presses still counted are together no more than the songs followed by   *)
(* their like, and one more from a change until it is seen.                *)
(***************************************************************************)

\* All but the first n songs of the list are the player's queue.
Ahead(n) == n \in 0 .. Len(queue) /\ upNext = SubSeq(queue, n + 1, Len(queue))

Even == \E n \in Nat : Ahead(n) /\ n + prev_pressed <= repeats

\* A change is to be seen: a press pays for it, or a song of the list does, or
\* there is none.
Behind ==
  \E n \in Nat : /\ Ahead(n) /\ n + prev_pressed <= repeats + 1
                 /\ prev_pressed > 0 \/ n > 0 \/ queue = <<>>

Shown == currentsong \in {playing, NoSong}

\* Before the page has been shown.
Fresh == queue = <<>> /\ prev_pressed = 0 /\ page = "other"

Matched ==
  /\ currentsong = NoSong => Fresh
  /\ IF Shown THEN Even /\ pc = "idle" ELSE Behind

MatchInv == failed = FALSE /\ hurried = FALSE => Matched

\* Taking the first song off the list brings it closer to the player's queue.
LEMMA DropFirst ==
  ASSUME NEW S, NEW all \in Seq(S), NEW n \in 1 .. Len(all)
  PROVE  /\ Len(Tail(all)) = Len(all) - 1
         /\ SubSeq(all, n + 1, Len(all)) = SubSeq(Tail(all), n, Len(all) - 1)
<1> DEFINE rest == Tail(all)
           left == SubSeq(all, n + 1, Len(all))
           same == SubSeq(rest, n, Len(all) - 1)
<1>1. /\ rest \in Seq(S) /\ Len(rest) = Len(all) - 1
      /\ \A i \in 1 .. Len(all) - 1 : rest[i] = all[i + 1]
  OBVIOUS
<1>2. /\ left \in Seq(S) /\ Len(left) = Len(all) - n
      /\ \A i \in 1 .. Len(all) - n : left[i] = all[n + i]
  OBVIOUS
<1>3. /\ same \in Seq(S) /\ Len(same) = Len(all) - n
      /\ \A i \in 1 .. Len(all) - n : same[i] = rest[n + i - 1]
  <2> HIDE DEF rest
  <2> QED
    BY <1>1
<1> HIDE DEF rest, left, same
<1>4. \A i \in 1 .. Len(left) : left[i] = same[i]
  <2> SUFFICES ASSUME NEW i \in 1 .. Len(left) PROVE left[i] = same[i]
    OBVIOUS
  <2>1. i \in 1 .. Len(all) - n /\ n + i - 1 \in 1 .. Len(all) - 1 /\ (n + i - 1) + 1 = n + i
    BY <1>2
  <2> QED
    BY <1>1, <1>2, <1>3, <2>1
<1>5. left = same
  BY <1>2, <1>3, <1>4, SeqEqual
<1> QED
  BY <1>1, <1>5 DEF left, same, rest

\* A step of the player the program was ready for.
LEMMA PlayerAhead ==
  ASSUME NEW song, PlayNext(song), hurried' = FALSE, hurried \in BOOLEAN
  PROVE  /\ hurried = FALSE /\ Shown /\ playing' = song
         /\ repeats' = IF song = playing THEN repeats + 1 ELSE repeats
<1>1. /\ playing' = song /\ hurried' = (hurried \/ currentsong \notin {playing, NoSong})
      /\ repeats' = IF song = playing THEN repeats + 1 ELSE repeats
  BY Zenon DEF PlayNext, Ready
<1>2. ~ (hurried \/ currentsong \notin {playing, NoSong})
  BY <1>1, Zenon
<1>3. hurried = FALSE /\ currentsong \in {playing, NoSong}
  BY <1>2, Zenon
<1> QED
  BY <1>1, <1>3, Zenon DEF Shown

\* A step forward leaves the list one song behind at most.
LEMMA MatchGoOn ==
  ASSUME ListInv, MatchInv, GoOn,
         UNCHANGED <<page, currentsong, list, prev_pressed, pc, failed>>
  PROVE  MatchInv'
<1> SUFFICES ASSUME failed' = FALSE, hurried' = FALSE PROVE Matched'
  BY DEF MatchInv
<1>0. /\ hurried \in BOOLEAN /\ failed = FALSE /\ playing \in Songs
      /\ prev_pressed \in Nat /\ repeats \in Nat /\ queue \in Seq(Songs) /\ queue' = queue
  BY SongQueueAssumption DEF ListInv, TypeOK, list
<1>1. /\ hurried = FALSE /\ Shown
      /\ repeats' = IF playing' = playing THEN repeats + 1 ELSE repeats
      /\ \/ upNext # <<>> /\ upNext' = Tail(upNext)
         \/ upNext = <<>> /\ upNext' = <<>>
  BY <1>0, PlayerAhead DEF GoOn
<1>2. Even /\ pc = "idle" /\ (currentsong = NoSong => Fresh)
  BY <1>0, <1>1 DEF MatchInv, Matched
<1>3. PICK n \in Nat : Ahead(n) /\ n + prev_pressed <= repeats
  BY <1>2 DEF Even
<1>4. \E m \in {n, n + 1} : Ahead(m)' /\ (m = 0 => queue = <<>>) /\ (queue = <<>> => m = n)
  <2>1. CASE upNext # <<>> /\ upNext' = Tail(upNext)
    <3>1. n + 1 \in 0 .. Len(queue) /\ upNext' = SubSeq(queue, n + 2, Len(queue))
      BY <1>0, <1>3, <2>1, RemoveOldest DEF Ahead
    <3>2. Ahead(n + 1)' /\ n + 1 # 0 /\ queue # <<>>
      BY <1>0, <3>1 DEF Ahead
    <3> QED
      BY <3>2
  <2>2. CASE upNext = <<>> /\ upNext' = <<>>
    <3>1. Ahead(n)'
      BY <1>0, <1>3, <2>2 DEF Ahead
    <3>2. n = 0 => queue = <<>>
      BY <1>0, <1>3, <2>2 DEF Ahead
    <3> QED
      BY <3>1, <3>2
  <2> QED
    BY <1>1, <2>1, <2>2
<1>5. PICK m \in {n, n + 1} : Ahead(m)' /\ (m = 0 => queue = <<>>) /\ (queue = <<>> => m = n)
  BY <1>4
<1>6. (currentsong = NoSong => Fresh)'
  BY <1>0, <1>2 DEF Fresh
<1>7. CASE playing' = playing
  <2>1. m \in Nat /\ m + prev_pressed <= repeats'
    BY <1>0, <1>1, <1>3, <1>5, <1>7
  <2>2. Even' /\ Shown'
    BY <1>1, <1>5, <1>7, <2>1 DEF Even, Shown
  <2> QED
    BY <1>2, <1>6, <2>2 DEF Matched
<1>8. CASE playing' # playing /\ currentsong = NoSong
  <2>1. m \in Nat /\ m + prev_pressed <= repeats'
    BY <1>0, <1>1, <1>2, <1>3, <1>5, <1>8 DEF Fresh
  <2>2. Even' /\ Shown'
    BY <1>5, <1>8, <2>1 DEF Even, Shown
  <2> QED
    BY <1>2, <1>6, <2>2 DEF Matched
<1>9. CASE playing' # playing /\ currentsong # NoSong
  <2>1. m \in Nat /\ m + prev_pressed <= repeats' + 1 /\ (prev_pressed > 0 \/ m > 0 \/ queue = <<>>)
    BY <1>0, <1>1, <1>3, <1>5, <1>9
  <2>2. Behind'
    BY <1>0, <1>5, <2>1 DEF Behind
  <2>3. ~ Shown'
    BY <1>1, <1>9 DEF Shown
  <2> QED
    BY <1>6, <2>2, <2>3 DEF Matched
<1> QED
  BY <1>7, <1>8, <1>9

\* A press of "Prev song" is counted: it pays for the change it makes, or for
\* one the program does not see.
LEMMA MatchGoBack ==
  ASSUME ListInv, MatchInv, prev_song
  PROVE  MatchInv'
<1> SUFFICES ASSUME failed' = FALSE, hurried' = FALSE PROVE Matched'
  BY DEF MatchInv
<1>0. /\ hurried \in BOOLEAN /\ playing \in Songs /\ failed \in BOOLEAN
      /\ prev_pressed \in Nat /\ repeats \in Nat
  BY SongQueueAssumption DEF ListInv, TypeOK
<1>1. PICK song \in Songs : PlayNext(song)
  BY Zenon DEF prev_song
<1>2. /\ hurried = FALSE /\ Shown
      /\ repeats' = IF playing' = playing THEN repeats + 1 ELSE repeats
  BY <1>0, <1>1, PlayerAhead
<1>3. /\ prev_pressed' = prev_pressed + 1 /\ failed = FALSE
      /\ UNCHANGED <<upNext, currentsong, queue, page, pc>> /\ page = "spotify"
  <2>1. failed' # TRUE
    OBVIOUS
  <2>2. prev_pressed' = prev_pressed + 1 /\ failed' = failed
    BY <2>1, Zenon DEF prev_song
  <2> QED
    BY <2>2, Zenon DEF prev_song, list
<1>4. Even /\ pc = "idle" /\ currentsong = playing /\ currentsong # NoSong
  BY <1>2, <1>3 DEF MatchInv, Matched, Shown, Fresh
<1>5. PICK n \in Nat : Ahead(n) /\ n + prev_pressed <= repeats
  BY <1>4 DEF Even
<1>6. Ahead(n)'
  BY <1>3, <1>5 DEF Ahead
<1>7. CASE playing' = playing
  <2>1. n + prev_pressed' <= repeats'
    BY <1>0, <1>2, <1>3, <1>5, <1>7
  <2>2. Even' /\ Shown'
    BY <1>3, <1>4, <1>6, <1>7, <2>1 DEF Even, Shown
  <2> QED
    BY <1>3, <1>4, <2>2 DEF Matched
<1>8. CASE playing' # playing
  <2>1. n + prev_pressed' <= repeats' + 1 /\ prev_pressed' > 0
    BY <1>0, <1>2, <1>3, <1>5, <1>8
  <2>2. Behind'
    BY <1>6, <2>1 DEF Behind
  <2>3. ~ Shown'
    BY <1>3, <1>4, <1>8 DEF Shown
  <2> QED
    BY <1>3, <1>4, <2>2, <2>3 DEF Matched
<1> QED
  BY <1>7, <1>8

\* An addition comes to both.
LEMMA MatchAdd ==
  ASSUME ListInv, MatchInv, NEW song \in Songs, add_to_que(song)
  PROVE  MatchInv'
<1> SUFFICES ASSUME failed' = FALSE, hurried' = FALSE PROVE Matched'
  BY DEF MatchInv
<1>1. /\ queue' = Append(queue, song)
      /\ UNCHANGED <<playing, currentsong, prev_pressed, pc, repeats>>
      /\ page = "search" /\ queue \in Seq(Songs)
  BY DEF add_to_que, ListInv, TypeOK
<1>2. upNext' = Append(upNext, song) /\ failed = FALSE
  <2>1. failed' # TRUE
    OBVIOUS
  <2>2. upNext' = Append(upNext, song) /\ failed' = failed
    BY <2>1, Zenon DEF add_to_que
  <2> QED
    BY <2>2, Zenon
<1>3. hurried = FALSE /\ currentsong = playing
  <2>1. hurried' = (hurried \/ currentsong \notin {playing})
    BY Zenon DEF add_to_que, Ready
  <2>2. ~ (hurried \/ currentsong \notin {playing}) /\ hurried \in BOOLEAN
    BY <2>1, Zenon DEF ListInv, TypeOK
  <2>3. hurried = FALSE /\ currentsong \in {playing}
    BY <2>2, Zenon
  <2> QED
    BY <2>3
<1>4. Even /\ pc = "idle" /\ currentsong # NoSong
  BY <1>1, <1>2, <1>3 DEF MatchInv, Matched, Shown, Fresh
<1>5. PICK n \in Nat : Ahead(n) /\ n + prev_pressed <= repeats
  BY <1>4 DEF Even
<1>6. Ahead(n)'
  <2>1. SubSeq(Append(queue, song), n + 1, Len(Append(queue, song)))
          = Append(SubSeq(queue, n + 1, Len(queue)), song)
    BY <1>1, <1>5, AddNewest DEF Ahead
  <2>2. Len(queue') = Len(queue) + 1 /\ Len(queue) \in Nat
    BY <1>1, AppendProperties
  <2>3. n \in 0 .. Len(queue')
    BY <1>5, <2>2 DEF Ahead
  <2> QED
    BY <1>1, <1>2, <1>5, <2>1, <2>3 DEF Ahead
<1>7. Shown' /\ Even' /\ pc' = "idle"
  BY <1>1, <1>3, <1>4, <1>5, <1>6 DEF Shown, Even
<1> QED
  BY <1>1, <1>4, <1>7 DEF Matched

\* An answer brings the page level with the player.
LEMMA MatchAnswer ==
  ASSUME ListInv, update_info, failed' = FALSE
  PROVE  failed = FALSE /\ currentsong' = playing /\ playing # NoSong
<1>1. failed' # TRUE
  OBVIOUS
<1>2. failed' = failed /\ currentsong' = playing
  BY <1>1, Zenon DEF update_info
<1>3. playing # NoSong
  BY SongQueueAssumption DEF ListInv, TypeOK
<1> QED
  BY <1>2, <1>3, Zenon

LEMMA MatchShow ==
  ASSUME ListInv, MatchInv, show_page
  PROVE  MatchInv'
<1> SUFFICES ASSUME failed' = FALSE, hurried' = FALSE PROVE Matched'
  BY DEF MatchInv
<1>1. UNCHANGED <<playing, upNext, queue, prev_pressed, repeats, pc>> /\ update_info
  BY Zenon DEF show_page, player, list
<1>2. failed = FALSE /\ currentsong' = playing /\ playing # NoSong
  BY <1>1, MatchAnswer
<1>3. hurried = FALSE /\ Shown
  <2>1. hurried' = (hurried \/ currentsong \notin {playing, NoSong})
    BY Zenon DEF show_page, Ready
  <2>2. ~ (hurried \/ currentsong \notin {playing, NoSong}) /\ hurried \in BOOLEAN
    BY <2>1, Zenon DEF ListInv, TypeOK
  <2> QED
    BY <2>2, Zenon DEF Shown
<1>4. Even /\ pc = "idle"
  BY <1>2, <1>3 DEF MatchInv, Matched
<1>5. Shown' /\ Even' /\ pc' = "idle"
  BY <1>1, <1>2, <1>4 DEF Shown, Even, Ahead
<1> QED
  BY <1>2, <1>5 DEF Matched

\* Handling a change pays what is owed.
LEMMA MatchHandle ==
  ASSUME ListInv, MatchInv, HandleChange
  PROVE  MatchInv'
<1> SUFFICES ASSUME failed' = FALSE, hurried' = FALSE PROVE Matched'
  BY DEF MatchInv
<1>1. /\ UNCHANGED <<playing, upNext, repeats>> /\ update_info
      /\ pc = "changed" /\ pc' = "idle" /\ hurried' = hurried
  BY Zenon DEF HandleChange, player
<1>2. failed = FALSE /\ currentsong' = playing /\ hurried = FALSE /\ playing # NoSong
  BY <1>1, MatchAnswer
<1>3. Behind
  BY <1>1, <1>2 DEF MatchInv, Matched
<1>4. PICK n \in Nat : /\ Ahead(n) /\ n + prev_pressed <= repeats + 1
                       /\ prev_pressed > 0 \/ n > 0 \/ queue = <<>>
  BY <1>3 DEF Behind
<1>5. /\ prev_pressed \in Nat /\ repeats \in Nat /\ queue \in Seq(Songs)
      /\ \/ prev_pressed = 0 /\ queue # <<>> /\ queue' = Tail(queue) /\ prev_pressed' = 0
         \/ prev_pressed = 0 /\ queue = <<>> /\ UNCHANGED <<queue, prev_pressed>>
         \/ prev_pressed > 0 /\ prev_pressed' = prev_pressed - 1 /\ queue' = queue
  BY SongQueueAssumption DEF HandleChange, remove_song, ListInv, TypeOK
<1>6. Even'
  <2>1. CASE prev_pressed = 0 /\ queue # <<>> /\ queue' = Tail(queue) /\ prev_pressed' = 0
    <3>1. n \in 1 .. Len(queue)
      BY <1>4, <2>1 DEF Ahead
    <3>2. /\ Len(queue') = Len(queue) - 1
          /\ upNext' = SubSeq(queue', n, Len(queue'))
      BY <1>1, <1>4, <1>5, <2>1, <3>1, DropFirst DEF Ahead
    <3>3. n - 1 \in 0 .. Len(queue') /\ (n - 1) + 1 = n
      BY <1>5, <3>1, <3>2
    <3>4. Ahead(n - 1)'
      BY <3>2, <3>3 DEF Ahead
    <3>5. n - 1 \in Nat /\ (n - 1) + prev_pressed' <= repeats'
      BY <1>1, <1>4, <1>5, <2>1, <3>1
    <3> QED
      BY <3>4, <3>5 DEF Even
  <2>2. CASE prev_pressed = 0 /\ queue = <<>> /\ UNCHANGED <<queue, prev_pressed>>
    <3>1. n = 0 /\ Ahead(n)'
      BY <1>1, <1>4, <2>2 DEF Ahead
    <3>2. n + prev_pressed' <= repeats'
      BY <1>1, <1>5, <2>2, <3>1
    <3> QED
      BY <3>1, <3>2 DEF Even
  <2>3. CASE prev_pressed > 0 /\ prev_pressed' = prev_pressed - 1 /\ queue' = queue
    <3>1. Ahead(n)'
      BY <1>1, <1>4, <2>3 DEF Ahead
    <3>2. n + prev_pressed' <= repeats'
      BY <1>1, <1>4, <1>5, <2>3
    <3> QED
      BY <3>1, <3>2 DEF Even
  <2> QED
    BY <1>5, <2>1, <2>2, <2>3
<1>7. Shown'
  BY <1>1, <1>2 DEF Shown
<1> QED
  BY <1>1, <1>2, <1>6, <1>7 DEF Matched

LEMMA MatchInvNext == ListInv /\ MatchInv /\ [Next]_vars => MatchInv'
<1> SUFFICES ASSUME ListInv, MatchInv, [Next]_vars PROVE MatchInv'
  OBVIOUS
<1>1. CASE SongEnds
  BY <1>1, MatchGoOn DEF SongEnds
<1>2. CASE skip_song
  BY <1>2, MatchGoOn DEF skip_song
<1>3. CASE LeavePage
  <2>1. /\ UNCHANGED <<playing, upNext, currentsong, queue, prev_pressed, pc, failed, hurried,
                       repeats>>
        /\ page # "other"
    BY <1>3 DEF LeavePage, player, list, flags
  <2> QED
    BY <2>1 DEF MatchInv, Matched, Shown, Even, Behind, Ahead, Fresh
<1>4. CASE SeeChange
  <2>1. UNCHANGED <<playing, upNext, currentsong, queue, prev_pressed, failed, hurried, repeats>>
    BY <1>4 DEF SeeChange, player, list, flags
  <2>2. ~ Shown
    BY <1>4 DEF SeeChange, Shown
  <2>3. currentsong # NoSong
    BY <2>2 DEF Shown
  <2> QED
    BY <2>1, <2>2, <2>3 DEF MatchInv, Matched, Shown, Behind, Ahead
<1>5. CASE UNCHANGED vars
  <2>1. UNCHANGED <<playing, upNext, currentsong, queue, prev_pressed, pc, failed, hurried,
                    repeats, page>>
    BY <1>5 DEF vars, player, list, flags
  <2> QED
    BY <2>1 DEF MatchInv, Matched, Shown, Even, Behind, Ahead, Fresh
<1> QED
  BY <1>1, <1>2, <1>3, <1>4, <1>5, MatchGoBack, MatchAdd, MatchShow, MatchHandle DEF Next

\* While every request is answered and the program deals with each change
\* before the next one, the list ends in the player's queue, however often the
\* user goes back, skips, adds songs and changes pages; and the songs already
\* played that are still on it are no more than the times a song was followed
\* by its like, a press of "Prev song" that changes nothing included. Without
\* such a time the list is the player's queue.
THEOREM ListMatches == Spec => []ListIsPlayersQueue
<1>1. Init => MatchInv
  <2> SUFFICES ASSUME Init PROVE Matched
    BY DEF MatchInv
  <2>1. /\ queue = <<>> /\ upNext = <<>> /\ prev_pressed = 0 /\ repeats = 0
        /\ currentsong = NoSong /\ page = "other" /\ pc = "idle"
    BY DEF Init
  <2>2. Ahead(0)
    BY <2>1 DEF Ahead
  <2> QED
    BY <2>1, <2>2 DEF Matched, Shown, Even, Fresh
<1>2. ListInv /\ MatchInv => ListIsPlayersQueue
  <2> SUFFICES ASSUME ListInv, MatchInv, ~ failed, ~ hurried, currentsong = playing
               PROVE  \E n \in 0 .. repeats : upNext = SubSeq(queue, n + 1, Len(queue))
    BY Zenon DEF ListIsPlayersQueue
  <2>1. failed = FALSE /\ hurried = FALSE
    BY Zenon DEF ListInv, TypeOK
  <2>2. PICK n \in Nat : Ahead(n) /\ n + prev_pressed <= repeats
    BY <2>1 DEF MatchInv, Matched, Shown, Even
  <2>3. prev_pressed \in Nat /\ repeats \in Nat
    BY SongQueueAssumption DEF ListInv, TypeOK
  <2>4. n \in 0 .. repeats
    BY <2>2, <2>3
  <2> QED
    BY <2>2, <2>4 DEF Ahead
<1> QED
  BY <1>1, <1>2, MatchInvNext, ListInvInit, ListInvNext, PTL DEF Spec
=============================================================================
