------------------------------- MODULE Pages --------------------------------
(***************************************************************************)
(* The pages of the GUI and the login (gui.py, spotify.py, http.py).       *)
(*                                                                         *)
(* One thread runs everything. Three things can hold it up inside a        *)
(* handler: the login, which waits for the browser to call the program's   *)
(* own HTTP server; the exchange of the code it got for a token; and       *)
(* show_page of the Spotify page, which asks for a song until one plays.   *)
(* Tk swallows an exception of a handler: what the handler has done until  *)
(* then stays done.                                                        *)
(***************************************************************************)
EXTENDS Integers, Sequences

CONSTANTS
  Users,      \* the ones who may log in
  NoUser,
  MaxEvents   \* clicks, requests that stray in and changes outside: a bound

ASSUME PagesAssumption == NoUser \notin Users /\ MaxEvents \in Nat

\* Mutant: the Spotify page is made last.
OrderSpotifyLast == <<"equalizer", "Frontpage", "search", "Authorize", "spotify">>

\* The pages in the order append_pages makes them and change_page visits them.
Order == <<"spotify", "equalizer", "Frontpage", "search", "Authorize">>

Pages == {"spotify", "equalizer", "Frontpage", "search", "Authorize"}

\* The buttons that change the page, besides the ones that log in.
Buttons == [Authorize |-> {},
            Frontpage |-> {"spotify", "equalizer"},
            equalizer |-> {"Frontpage", "spotify"},
            spotify   |-> {"Frontpage", "equalizer", "search"},
            search    |-> {"Frontpage", "spotify"}]

NoCode == [user |-> NoUser, window |-> 0]

VARIABLES
  shown,      \* the pages whose show is True
  packed,     \* the pages whose frame is packed: what one sees
  pc,         \* "rest", or what the handler waits for: "browser", "token", "song"
  then,       \* does a login lead to the front page?
  backlog,    \* requests the HTTP server has not handled
  code,       \* myHandler.code
  session,    \* the user the Headers belong to
  expired,    \* is their token older than an hour?
  song,       \* has the player a song?
  window,     \* browser windows opened so far
  answered,   \* has the one that is open sent its answer?
  spent,      \* Spotify: codes exchanged already
  granted,    \* history: the user whose browser granted access last
  disturbed,  \* history: a stray request came, or an exchange was cut off
  events      \* clicks, strays and changes outside so far

pageVars  == <<shown, packed>>
loginVars == <<then, backlog, code, session, window, answered, spent, granted, disturbed>>
worldVars == <<expired, song>>
vars == <<pageVars, pc, loginVars, worldVars, events>>

\* GUI.__init__ makes the pages and shows the first one.
Init ==
  /\ shown = {"Authorize"} /\ packed = {"Authorize"}
  /\ pc = "rest" /\ then = FALSE
  /\ backlog = <<>> /\ code = NoCode
  /\ session = NoUser /\ expired = FALSE /\ song \in BOOLEAN
  /\ window = 0 /\ answered = FALSE /\ spent = {} /\ granted = NoUser
  /\ disturbed = FALSE /\ events = 0

Event == events < MaxEvents /\ events' = events + 1

-----------------------------------------------------------------------------
(***************************************************************************)
(* change_page: hide what is shown, page by page, and show the target when *)
(* its turn comes.                                                         *)
(***************************************************************************)
Turn(page) == CHOOSE i \in DOMAIN Order : Order[i] = page
UpTo(page) == {Order[i] : i \in 1 .. Turn(page)}

\* Mutant: the show_page that overrides the template's does not set show.
BeginPageForgets(page) ==
  /\ shown' = shown \ UpTo(page)
  /\ packed' = packed \ (shown \cap UpTo(page))

\* The loop up to the target: show_page sets show before anything else.
BeginPage(page) ==
  /\ shown' = (shown \ UpTo(page)) \cup {page}
  /\ packed' = packed \ (shown \cap UpTo(page))

\* The frame is packed, and the loop goes on behind the target.
EndPage(page, flags, frames) ==
  /\ shown' = flags \cap UpTo(page)
  /\ packed' = (frames \ (flags \ UpTo(page))) \cup {page}

\* A page other than Spotify's is shown without waiting for anything.
change_page(page) ==
  EndPage(page, (shown \ UpTo(page)) \cup {page}, packed \ (shown \cap UpTo(page)))

PressPage(page) ==
  /\ pc = "rest" /\ Event
  /\ \E p \in packed : page \in Buttons[p]
  /\ IF page = "spotify"
     THEN BeginPage(page) /\ pc' = "song"
     ELSE change_page(page) /\ pc' = "rest"
  /\ UNCHANGED <<loginVars, worldVars>>

\* show_page of the Spotify page asks isUserPlaying. A song: the page is
\* packed. None, or a token no longer valid: a warning, and the question
\* again, which leaves the state as it is.
show_page ==
  /\ pc = "song" /\ song /\ ~ expired
  /\ EndPage("spotify", shown, packed)
  /\ pc' = "rest"
  /\ UNCHANGED <<loginVars, worldVars, events>>

\* A request that fails ends it, and the loop of change_page with it.
show_pageRaises ==
  /\ pc = "song"
  /\ pc' = "rest"
  /\ UNCHANGED <<pageVars, loginVars, worldVars, events>>

-----------------------------------------------------------------------------
(***************************************************************************)
(* The login: authorize_pressed on the first page, "Change user" on the    *)
(* front page.                                                             *)
(***************************************************************************)
authorize ==
  /\ pc = "rest" /\ Event
  /\ \/ "Authorize" \in packed /\ then' = TRUE
     \/ "Frontpage" \in packed /\ then' = FALSE
  /\ pc' = "browser"
  /\ window' = window + 1 /\ answered' = FALSE
  /\ UNCHANGED <<pageVars, worldVars, backlog, code, session, spent, granted, disturbed>>

\* The user logs in and grants access, or refuses; Spotify sends the browser
\* back to the program's HTTP server with a code or with an error.
Answer ==
  /\ pc = "browser" /\ ~ answered
  /\ answered' = TRUE
  /\ \/ \E user \in Users :
          /\ backlog' = Append(backlog, [user |-> user, window |-> window])
          /\ granted' = user
     \/ backlog' = Append(backlog, NoCode) /\ granted' = granted
  /\ UNCHANGED <<pageVars, worldVars, pc, then, code, session, window, spent,
                 disturbed, events>>

\* The browser may ask the server for more than that, an icon for one.
Stray ==
  /\ pc = "browser" /\ Event
  /\ backlog' = Append(backlog, NoCode)
  /\ disturbed' = TRUE
  /\ UNCHANGED <<pageVars, worldVars, pc, then, code, session, window, answered,
                 spent, granted>>

\* Mutant: the server is made to handle the browser's request for an icon too.
getincTwice ==
  /\ pc = "browser" /\ Len(backlog) > 1
  /\ code' = IF backlog[1] = NoCode THEN code ELSE backlog[1]
  /\ backlog' = Tail(Tail(backlog))
  /\ pc' = "token"
  /\ UNCHANGED <<pageVars, worldVars, then, session, window, answered, spent,
                 granted, disturbed, events>>

\* Mutant: do_GET does not replace the code of an earlier login.
getincKeeps ==
  /\ pc = "browser" /\ backlog # <<>>
  /\ code' = IF Head(backlog) = NoCode \/ code # NoCode THEN code ELSE Head(backlog)
  /\ backlog' = Tail(backlog)
  /\ pc' = "token"
  /\ UNCHANGED <<pageVars, worldVars, then, session, window, answered, spent,
                 granted, disturbed, events>>

\* getinc handles one request, the oldest. If it carries no code, do_GET
\* raises and myHandler.code keeps its value. The browser is killed.
getinc ==
  /\ pc = "browser" /\ backlog # <<>>
  /\ code' = IF Head(backlog) = NoCode THEN code ELSE Head(backlog)
  /\ backlog' = Tail(backlog)
  /\ pc' = "token"
  /\ UNCHANGED <<pageVars, worldVars, then, session, window, answered, spent,
                 granted, disturbed, events>>

\* A code is exchanged once. Headers is assigned last, so a login that fails
\* leaves the session as it was; one that succeeds on the first page goes on.
Granted ==
  /\ code \notin spent \cup {NoCode}
  /\ spent' = spent \cup {code}
  /\ session' = code.user /\ expired' = FALSE
  /\ IF then THEN change_page("Frontpage") ELSE UNCHANGED pageVars
  /\ UNCHANGED disturbed

\* No access_token in the answer: a KeyError.
Refused ==
  /\ code \in spent \cup {NoCode}
  /\ UNCHANGED <<pageVars, spent, session, expired, disturbed>>

\* The request or its answer is lost: an exception.
CutOff ==
  /\ spent' \in {spent, spent \cup ({code} \ {NoCode})}
  /\ disturbed' = TRUE
  /\ UNCHANGED <<pageVars, session, expired>>

\* Mutant: the page changes although the exchange was cut off.
ExchangeCatches ==
  /\ pc = "token"
  /\ \/ Granted \/ Refused
     \/ /\ spent' \in {spent, spent \cup ({code} \ {NoCode})}
        /\ disturbed' = TRUE /\ UNCHANGED <<session, expired>>
        /\ IF then THEN change_page("Frontpage") ELSE UNCHANGED pageVars
  /\ pc' = "rest"
  /\ UNCHANGED <<song, then, backlog, code, window, answered, granted, events>>

Exchange ==
  /\ pc = "token"
  /\ Granted \/ Refused \/ CutOff
  /\ pc' = "rest"
  /\ UNCHANGED <<song, then, backlog, code, window, answered, granted, events>>

-----------------------------------------------------------------------------
\* Songs start and end on the user's devices; a token is valid for an hour,
\* and nothing renews it.
World ==
  /\ Event
  /\ \/ song' = ~ song /\ UNCHANGED expired
     \/ session # NoUser /\ expired' = TRUE /\ UNCHANGED song
  /\ UNCHANGED <<pageVars, pc, loginVars>>

Next ==
  \/ \E page \in Pages : PressPage(page)
  \/ show_page
  \/ show_pageRaises
  \/ authorize
  \/ Answer
  \/ Stray
  \/ getinc
  \/ Exchange
  \/ World

Spec == Init /\ [][Next]_vars

\* A handler that can go on does. Nobody need press a button, answer in the
\* browser or start a song.
FairSpec ==
  /\ Spec
  /\ WF_vars(show_page) /\ WF_vars(getinc) /\ WF_vars(Exchange)

-----------------------------------------------------------------------------
\* Type invariant.
TypeOK ==
  /\ shown \subseteq Pages /\ packed \subseteq shown
  /\ pc \in {"rest", "browser", "token", "song"} /\ then \in BOOLEAN
  /\ LET Code == [user : Users, window : 1 .. window] \cup {NoCode}
     IN /\ backlog \in Seq(Code) /\ code \in Code /\ spent \subseteq Code
  /\ session \in Users \cup {NoUser} /\ granted \in Users \cup {NoUser}
  /\ expired \in BOOLEAN /\ song \in BOOLEAN
  /\ window \in 0 .. events /\ answered \in BOOLEAN /\ disturbed \in BOOLEAN
  /\ events \in 0 .. MaxEvents

\* Whatever show_page raises in the middle of change_page, there is always one
\* page to be seen, never none and never two; only the Spotify page can be
\* marked as shown without being packed, which the next change undoes.
OnePageVisible ==
  /\ \E page \in Pages : packed = {page}
  /\ shown \subseteq packed \cup {"spotify"}

\* "forcing the user to login before any other actions take place": no page
\* but the first is reached without a session, however logins fail.
LoginForced == packed # {"Authorize"} => session # NoUser

\* The session is always that of the user who granted access last: a refusal
\* leaves the old one and a code that stays behind in myHandler serves nobody
\* else, unless a stray request or a lost exchange has put the two out of step.
SessionIsGranted == pc = "rest" /\ ~ disturbed => session = granted

\* The window answers again and again, or waits for the user: for the browser
\* to call, or for a song. (After an hour no song helps any more: nothing
\* renews the token.)
WaitsForUser ==
  \/ pc = "browser" /\ backlog = <<>>
  \/ pc = "song" /\ (expired \/ ~ song)

FreeAgain == []<>(pc = "rest" \/ WaitsForUser)
=============================================================================
