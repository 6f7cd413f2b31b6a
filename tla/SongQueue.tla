----------------------------- MODULE SongQueue ------------------------------
(***************************************************************************)
(* The song queue of the GUI. The player is elsewhere: the GUI asks the    *)
(* Spotify web API once a second what is playing (check_changes, gui.py),  *)
(* and keeps a list of its own of the songs the user queued (que.py),      *)
(* which it shortens when it sees the song change.                         *)
(*                                                                         *)
(* One thread runs all handlers, so a click never falls into another       *)
(* handler; the player goes on at any moment, in the middle of one too. A  *)
(* request may fail on its way out or on its way back. Only the title of a *)
(* song is looked at.                                                      *)
(***************************************************************************)
EXTENDS Integers, Sequences

CONSTANTS
  Songs,       \* titles
  NoSong,      \* currentsong before update_info has ever got an answer
  Limit,       \* a song is added unless songs_in_queue > Limit: 10 in the code
  Labels,      \* places the page has for the queue: 11 in the code
  MaxEvents    \* song changes and clicks in a behaviour: a bound

ASSUME SongQueueAssumption ==
  /\ NoSong \notin Songs
  /\ Limit \in Nat /\ Labels \in Nat /\ Limit < Labels
  /\ MaxEvents \in Nat

VARIABLES
  playing,       \* the player: the song it plays
  upNext,        \* the player: the songs queued there
  page,          \* the page shown: "spotify", "search" or another one
  currentsong,   \* the song the page shows
  queue,         \* queue_title: the songs the page lists
  prev_pressed,  \* presses of "Prev song" not yet seen to have an effect
  pc,            \* check_changes: "idle", or "changed" after its first request
  added,         \* history: all songs ever listed
  removed,       \* history: songs taken off the list
  forward,       \* history: times the player went on to a next song
  failed,        \* history: a request has failed
  hurried,       \* history: a change, an addition or the opening of the page came
                 \* before the program had dealt with the change before it
  repeats,       \* history: times the player went on or back to a song of the
                 \* same title, which the program cannot see
  events         \* song changes and clicks so far

player == <<playing, upNext, forward>>
list   == <<queue, added, removed>>
flags  == <<failed, hurried, repeats>>
vars   == <<player, page, currentsong, list, prev_pressed, pc, flags, events>>

Init ==
  /\ playing \in Songs /\ upNext = <<>>
  /\ page = "other" /\ currentsong = NoSong
  /\ queue = <<>> /\ prev_pressed = 0 /\ pc = "idle"
  /\ added = <<>> /\ removed = 0 /\ forward = 0
  /\ failed = FALSE /\ hurried = FALSE /\ repeats = 0 /\ events = 0

\* Clicks and songs' ends are counted; history has the ones the page is not
\* ready for.
Event == events < MaxEvents /\ events' = events + 1
Ready(songs) == hurried' = (hurried \/ currentsong \notin songs)
PlayNext(song) ==
  /\ playing' = song
  /\ Ready({playing, NoSong})
  /\ repeats' = IF song = playing THEN repeats + 1 ELSE repeats

-----------------------------------------------------------------------------
(***************************************************************************)
(* The player.                                                             *)
(***************************************************************************)

\* The next song: a queued one first, otherwise what the album holds.
GoOn ==
  /\ \/ upNext # <<>> /\ PlayNext(Head(upNext)) /\ upNext' = Tail(upNext)
     \/ upNext = <<>> /\ upNext' = <<>> /\ \E song \in Songs : PlayNext(song)
  /\ forward' = forward + 1

SongEnds ==
  /\ Event
  /\ GoOn
  /\ UNCHANGED <<page, currentsong, list, prev_pressed, pc, failed>>

-----------------------------------------------------------------------------
(***************************************************************************)
(* The buttons of the two pages. A handler runs alone: check_changes is    *)
(* never inside one.                                                       *)
(***************************************************************************)

\* skip_song. If the request fails, nothing happens here.
skip_song ==
  /\ pc = "idle" /\ page = "spotify" /\ Event
  /\ GoOn
  /\ UNCHANGED <<page, currentsong, list, prev_pressed, pc, failed>>

\* prev_song: the player goes back, starts the song again or refuses, and the
\* answer is not looked at: the press is counted also if it changes nothing,
\* and stays counted until a change uses it up. An answer that does not arrive raises an
\* exception in between.
prev_song ==
  /\ pc = "idle" /\ page = "spotify" /\ Event
  /\ \E song \in Songs : PlayNext(song)
  /\ \/ prev_pressed' = prev_pressed + 1 /\ failed' = failed
     \/ prev_pressed' = prev_pressed /\ failed' = TRUE
  /\ UNCHANGED <<upNext, forward, page, currentsong, list, pc>>

\* Mutant: room for one song more than the page has places.
RoomTooMuch == Len(queue) <= Limit + 1

Room == Len(queue) <= Limit

\* Mutant: the song is sent to the player before the list is found full.
add_to_queSendsFirst(song) ==
  /\ pc = "idle" /\ page = "search" /\ Event
  /\ Ready({playing})
  /\ IF Room THEN queue' = Append(queue, song) /\ added' = Append(added, song)
             ELSE UNCHANGED <<queue, added>>
  /\ upNext' = Append(upNext, song)
  /\ UNCHANGED <<playing, forward, page, currentsong, removed,
                 prev_pressed, pc, failed, repeats>>

\* add_to_que: listed if there is room, and only then sent to the player.
add_to_que(song) ==
  /\ pc = "idle" /\ page = "search" /\ Event
  /\ Ready({playing})
  /\ Room
  /\ queue' = Append(queue, song) /\ added' = Append(added, song)
  /\ \/ upNext' = Append(upNext, song) /\ failed' = failed
     \/ upNext' = upNext /\ failed' = TRUE
  /\ UNCHANGED <<playing, forward, page, currentsong, removed,
                 prev_pressed, pc, repeats>>

\* update_info asks again what is playing; whatever fails in it is ignored.
update_info ==
  \/ currentsong' = playing /\ failed' = failed
  \/ currentsong' = currentsong /\ failed' = TRUE

\* show_page of the Spotify page, which has no button to itself.
show_page ==
  /\ pc = "idle" /\ page # "spotify"
  /\ Ready({playing, NoSong})
  /\ page' = "spotify"
  /\ update_info
  /\ UNCHANGED <<player, list, prev_pressed, pc, repeats, events>>

\* The buttons that lead elsewhere; "Search" is on the Spotify page only.
LeavePage ==
  /\ pc = "idle"
  /\ \/ page = "spotify" /\ page' \in {"search", "other"}
     \/ page = "search" /\ page' = "other"
  /\ UNCHANGED <<player, currentsong, list, prev_pressed, pc, flags, events>>

-----------------------------------------------------------------------------
(***************************************************************************)
(* check_changes, every second. If its first request fails, or if          *)
(* currentsong has no value yet, an exception ends it at once.             *)
(***************************************************************************)

\* Mutant: with nothing listed there is nothing to do.
SeeChangeIfListed ==
  /\ pc = "idle" /\ queue # <<>>
  /\ currentsong \notin {playing, NoSong}
  /\ pc' = "changed"
  /\ UNCHANGED <<player, page, currentsong, list, prev_pressed, flags, events>>

SeeChange ==
  /\ pc = "idle"
  /\ currentsong \notin {playing, NoSong}
  /\ pc' = "changed"
  /\ UNCHANGED <<player, page, currentsong, list, prev_pressed, flags, events>>

\* Mutant: the last song added goes.
remove_songNewest ==
  /\ queue # <<>>
  /\ queue' = SubSeq(queue, 1, Len(queue) - 1)
  /\ removed' = removed + 1

\* On an empty list remove_song raises, and check_changes goes on.
remove_song ==
  /\ queue # <<>>
  /\ queue' = Tail(queue)
  /\ removed' = removed + 1

\* Mutant: a press of "Prev song" is ticked off before it is looked at.
HandleChangeCountsFirst ==
  /\ pc = "changed"
  /\ update_info
  /\ prev_pressed' = IF prev_pressed > 0 THEN prev_pressed - 1 ELSE 0
  /\ IF prev_pressed' = 0 /\ queue # <<>>
     THEN remove_song ELSE UNCHANGED <<queue, removed>>
  /\ pc' = "idle"
  /\ UNCHANGED <<player, page, added, hurried, repeats, events>>

HandleChange ==
  /\ pc = "changed"
  /\ update_info
  /\ \/ prev_pressed = 0 /\ remove_song /\ prev_pressed' = 0
     \/ prev_pressed = 0 /\ queue = <<>> /\ UNCHANGED <<queue, removed, prev_pressed>>
     \/ prev_pressed > 0 /\ prev_pressed' = prev_pressed - 1 /\ UNCHANGED <<queue, removed>>
  /\ pc' = "idle"
  /\ UNCHANGED <<player, page, added, hurried, repeats, events>>

-----------------------------------------------------------------------------
Next ==
  \/ SongEnds
  \/ skip_song
  \/ prev_song
  \/ \E song \in Songs : add_to_que(song)
  \/ show_page
  \/ LeavePage
  \/ SeeChange
  \/ HandleChange

Spec == Init /\ [][Next]_vars

\* check_changes sets its timer again whatever happened in it, so it runs
\* again and again; a request it repeats is answered some time.
FairSpec ==
  /\ Spec
  /\ WF_vars(SeeChange)
  /\ SF_vars(HandleChange /\ currentsong' = playing)

-----------------------------------------------------------------------------
\* Type invariant. The list always fits the places the page has for it.
TypeOK ==
  /\ playing \in Songs /\ upNext \in Seq(Songs)
  /\ page \in {"spotify", "search", "other"} /\ currentsong \in Songs \cup {NoSong}
  /\ queue \in Seq(Songs) /\ Len(queue) <= Labels
  /\ prev_pressed \in 0 .. events
  /\ pc \in {"idle", "changed"}
  /\ added \in Seq(Songs) /\ removed \in 0 .. Len(added)
  /\ forward \in 0 .. events
  /\ failed \in BOOLEAN /\ hurried \in BOOLEAN /\ repeats \in 0 .. events
  /\ events \in 0 .. MaxEvents

\* Songs leave the list in the order they were added: it is always the last
\* ones added that are still listed.
QueueIsNewest == queue = SubSeq(added, removed + 1, Len(added))

\* "Fixed that the queue skips when one presses prev song" (todo.txt): as long
\* as requests are answered, the list loses no more songs than the player went
\* on to next ones, however often the user goes back and however the changes
\* meet the timer.
NoSongSkipped == ~ failed => removed <= forward

\* If, besides, the program dealt with every change before the next one came,
\* the list is the player's queue, also after going back and after a full
\* list; but for one song already played, at the front of it, for each time
\* the player took a song of the same title, as after a press of "Prev song"
\* that starts the song again or is refused. Such a press stays counted, and
\* the next change takes no song off the list.
ListIsPlayersQueue ==
  ~ failed /\ ~ hurried /\ currentsong = playing /\ pc = "idle" =>
    \E n \in 0 .. repeats : upNext = SubSeq(queue, n + 1, Len(queue))

\* Once the page has shown any song, and one goes on playing, the page shows
\* that one in the end and goes on showing it, whatever requests fail on the
\* way.
ChangeIsShown ==
  \A s \in Songs :
    <>[](playing = s /\ currentsong # NoSong) => <>[](currentsong = s)

\* "Fixed that it only updates when one goes from the main menu to Spotify"
\* (todo.txt): the page, while it is left open, shows the song that plays at some time at least.
OpenPageUpdates ==
  \A s \in Songs : <>[](playing = s /\ page = "spotify") => <>(currentsong = s)
=============================================================================
