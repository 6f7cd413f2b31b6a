---------------------------- MODULE Pages_proofs ----------------------------
(***************************************************************************)
(* Proofs about the pages and the login, for every number of users, of     *)
(* clicks and of requests, whatever fails.                                 *)
(***************************************************************************)
EXTENDS Pages, SequenceTheorems, TLAPS

-----------------------------------------------------------------------------
(***************************************************************************)
(* The loop of change_page.                                                *)
(***************************************************************************)

\* The loop has visited a page when its turn is over.
LEMMA TargetVisited ==
  ASSUME NEW page \in Pages
  PROVE  page \in UpTo(page)
<1>1. DOMAIN Order = 1 .. 5
  BY DEF Order
<1>2. \E i \in DOMAIN Order : Order[i] = page
  BY <1>1 DEF Order, Pages
<1>3. Turn(page) \in DOMAIN Order /\ Order[Turn(page)] = page
  BY <1>2 DEF Turn
<1> QED
  BY <1>1, <1>3 DEF UpTo

\* The page of Spotify comes first.
LEMMA SpotifyFirst == UpTo("spotify") = {"spotify"}
<1>1. /\ DOMAIN Order = 1 .. 5
      /\ Order[1] = "spotify" /\ Order[2] # "spotify" /\ Order[3] # "spotify"
      /\ Order[4] # "spotify" /\ Order[5] # "spotify"
  BY DEF Order
<1>2. \A i \in DOMAIN Order : Order[i] = "spotify" <=> i = 1
  BY <1>1
<1>3. Turn("spotify") = 1
  <2>1. 1 \in DOMAIN Order
    BY <1>1
  <2> QED
    BY <1>2, <2>1 DEF Turn
<1> QED
  BY <1>1, <1>3 DEF UpTo

-----------------------------------------------------------------------------
(***************************************************************************)
(* One page is visible, and the first one until somebody is logged in.     *)
(***************************************************************************)

\* The page p is the one to be seen; that of Spotify may be marked besides.
Visible(p) == packed = {p} /\ p \in shown /\ shown \subseteq {p, "spotify"}

\* A song is asked for only from a page that needs a session.
PageInv ==
  /\ \E p \in Pages : Visible(p)
  /\ pc = "song" => packed # {"Authorize"} /\ "spotify" \in shown

\* What the HTTP server hands on, and the program exchanges.
Codes == [user : Users, window : Nat] \cup {NoCode}
CodeInv == backlog \in Seq(Codes) /\ code \in Codes /\ window \in Nat

LoginInv == PageInv /\ CodeInv /\ LoginForced

\* A change to a page that is shown at once shows that page alone.
LEMMA ChangeShows ==
  ASSUME NEW p \in Pages, Visible(p), NEW page \in Pages, change_page(page)
  PROVE  packed' = {page} /\ shown' = {page} /\ Visible(page)'
<1>1. page \in UpTo(page)
  BY TargetVisited
<1>2. shown' = {page}
  BY <1>1 DEF change_page, EndPage
<1>3. packed' = {page}
  BY <1>1 DEF change_page, EndPage, Visible
<1> QED
  BY <1>2, <1>3 DEF Visible

\* The first step of showing the Spotify page leaves the other one packed.
LEMMA SpotifyBegins ==
  ASSUME NEW p \in Pages, Visible(p), p # "spotify", BeginPage("spotify")
  PROVE  packed' = {p} /\ Visible(p)'
<1>1. shown' = shown \cup {"spotify"}
  BY SpotifyFirst DEF BeginPage
<1>2. packed' = {p}
  BY SpotifyFirst DEF BeginPage, Visible
<1> QED
  BY <1>1, <1>2 DEF Visible

\* Its last step leaves the Spotify page alone, whatever was there.
LEMMA SpotifyEnds ==
  ASSUME NEW p \in Pages, Visible(p), "spotify" \in shown,
         EndPage("spotify", shown, packed)
  PROVE  packed' = {"spotify"} /\ Visible("spotify")'
<1>1. shown' = {"spotify"}
  BY SpotifyFirst DEF EndPage
<1>2. packed' = {"spotify"}
  BY SpotifyFirst DEF EndPage, Visible
<1> QED
  BY <1>1, <1>2 DEF Visible

LEMMA LoginInvInit == Init => LoginInv
<1> SUFFICES ASSUME Init PROVE LoginInv
  OBVIOUS
<1>1. Visible("Authorize") /\ "Authorize" \in Pages /\ pc = "rest"
  BY DEF Init, Visible, Pages
<1>2. backlog \in Seq(Codes) /\ code \in Codes /\ window \in Nat
  BY DEF Init, Codes
<1>3. LoginForced
  BY DEF Init, LoginForced
<1> QED
  BY <1>1, <1>2, <1>3 DEF LoginInv, PageInv, CodeInv

\* A step that leaves the pages alone, keeps a session there is and asks for a
\* song only if one was asked for already.
LEMMA PagesRest ==
  ASSUME PageInv, LoginForced, UNCHANGED pageVars,
         pc' = "song" => pc = "song", session # NoUser => session' # NoUser
  PROVE  PageInv' /\ LoginForced'
  BY DEF PageInv, LoginForced, Visible, pageVars

\* A login that succeeds belongs to a user.
LEMMA SessionOfCode ==
  ASSUME CodeInv, code # NoCode
  PROVE  code.user # NoUser
  BY PagesAssumption DEF CodeInv, Codes

\* What the browser sends carries a code of its window, or none.
LEMMA AnswerSends ==
  ASSUME CodeInv, Answer
  PROVE  \E c \in Codes :
           /\ backlog' = Append(backlog, c)
           /\ \/ c = [user |-> granted', window |-> window] /\ granted' \in Users
              \/ c = NoCode /\ granted' = granted
<1>1. NoCode \in Codes
  BY DEF Codes
<1>2. CASE backlog' = Append(backlog, NoCode) /\ granted' = granted
  BY <1>1, <1>2
<1>3. ASSUME NEW user \in Users, granted' = user,
             backlog' = Append(backlog, [user |-> user, window |-> window])
      PROVE  [user |-> granted', window |-> window] \in Codes /\ granted' \in Users
  BY <1>3 DEF Codes, CodeInv
<1> QED
  BY <1>2, <1>3, Zenon DEF Answer

LEMMA LoginInvNext == LoginInv /\ [Next]_vars => LoginInv'
<1> SUFFICES ASSUME LoginInv, [Next]_vars PROVE LoginInv'
  OBVIOUS
<1>0. PageInv /\ CodeInv /\ LoginForced
  BY DEF LoginInv
<1>1. ASSUME NEW page \in Pages, PressPage(page) PROVE LoginInv'
  <2>1. CodeInv'
    BY <1>0, <1>1 DEF CodeInv, PressPage, loginVars
  <2>2. PICK p \in Pages : Visible(p) /\ page \in Buttons[p]
    BY <1>0, <1>1 DEF PageInv, PressPage, Visible
  <2>3. p # "Authorize" /\ page # "Authorize"
    BY <2>2 DEF Buttons, Pages
  <2>4. session # NoUser /\ session' = session
    BY <1>0, <1>1, <2>2, <2>3 DEF LoginForced, Visible, PressPage, loginVars
  <2>5. CASE page = "spotify"
    <3>1. p # "spotify"
      BY <2>2, <2>5 DEF Buttons
    <3>2. packed' = {p} /\ Visible(p)' /\ "spotify" \in shown'
      BY <1>1, <2>2, <2>5, <3>1, SpotifyBegins DEF PressPage, BeginPage
    <3> QED
      BY <2>1, <2>3, <2>4, <3>2 DEF LoginInv, PageInv, LoginForced
  <2>6. CASE page # "spotify"
    <3>1. packed' = {page} /\ Visible(page)' /\ pc' = "rest"
      BY <1>1, <2>2, <2>6, ChangeShows DEF PressPage
    <3> QED
      BY <2>1, <2>4, <3>1 DEF LoginInv, PageInv, LoginForced
  <2> QED
    BY <2>5, <2>6
<1>2. CASE show_page
  <2>1. CodeInv'
    BY <1>0, <1>2 DEF CodeInv, show_page, loginVars
  <2>2. PICK p \in Pages : Visible(p)
    BY <1>0 DEF PageInv
  <2>3. packed' = {"spotify"} /\ Visible("spotify")' /\ pc' = "rest"
    BY <1>0, <1>2, <2>2, SpotifyEnds DEF PageInv, show_page
  <2>4. session # NoUser /\ session' = session
    BY <1>0, <1>2 DEF PageInv, LoginForced, show_page, loginVars
  <2> QED
    BY <2>1, <2>3, <2>4 DEF LoginInv, PageInv, LoginForced, Pages
<1>3. CASE show_pageRaises
  <2>1. CodeInv'
    BY <1>0, <1>3 DEF CodeInv, show_pageRaises, loginVars
  <2>2. UNCHANGED pageVars /\ pc' = "rest" /\ session' = session
    BY <1>3 DEF show_pageRaises, loginVars
  <2> QED
    BY <1>0, <2>1, <2>2, PagesRest DEF LoginInv
<1>4. CASE authorize
  <2>1. CodeInv'
    BY <1>0, <1>4 DEF CodeInv, authorize
  <2>2. UNCHANGED pageVars /\ pc' = "browser" /\ session' = session
    BY <1>4 DEF authorize
  <2> QED
    BY <1>0, <2>1, <2>2, PagesRest DEF LoginInv
<1>5. CASE Answer
  <2>1. backlog' \in Seq(Codes) /\ code' \in Codes /\ window' \in Nat
    <3>1. code' = code /\ window' = window
      BY <1>5, Zenon DEF Answer
    <3>2. \E c \in Codes : backlog' = Append(backlog, c)
      BY <1>0, <1>5, AnswerSends
    <3> QED
      BY <1>0, <3>1, <3>2 DEF CodeInv
  <2>2. UNCHANGED pageVars /\ pc' = pc /\ session' = session
    BY <1>5 DEF Answer
  <2> QED
    BY <1>0, <2>1, <2>2, PagesRest DEF LoginInv, CodeInv
<1>6. CASE Stray
  <2>1. backlog' \in Seq(Codes) /\ code' \in Codes /\ window' \in Nat
    BY <1>0, <1>6 DEF CodeInv, Codes, Stray
  <2>2. UNCHANGED pageVars /\ pc' = pc /\ session' = session
    BY <1>6 DEF Stray
  <2> QED
    BY <1>0, <2>1, <2>2, PagesRest DEF LoginInv, CodeInv
<1>7. CASE getinc
  <2>1. backlog' \in Seq(Codes) /\ code' \in Codes /\ window' \in Nat
    BY <1>0, <1>7 DEF CodeInv, getinc
  <2>2. UNCHANGED pageVars /\ pc' = "token" /\ session' = session
    BY <1>7 DEF getinc
  <2> QED
    BY <1>0, <2>1, <2>2, PagesRest DEF LoginInv, CodeInv
<1>8. CASE Exchange
  <2>1. CodeInv' /\ pc' = "rest"
    BY <1>0, <1>8 DEF CodeInv, Exchange
  <2>2. CASE UNCHANGED <<pageVars, session>>
    BY <1>0, <2>1, <2>2, PagesRest DEF LoginInv
  <2>3. CASE Granted
    <3>1. session' # NoUser
      BY <1>0, <2>3, SessionOfCode DEF Granted
    <3>2. CASE UNCHANGED pageVars
      BY <1>0, <2>1, <3>1, <3>2, PagesRest DEF LoginInv
    <3>3. CASE change_page("Frontpage")
      <4>1. PICK p \in Pages : Visible(p)
        BY <1>0 DEF PageInv
      <4>2. "Frontpage" \in Pages
        BY DEF Pages
      <4>3. Visible("Frontpage")'
        BY <3>3, <4>1, <4>2, ChangeShows
      <4> QED
        BY <2>1, <3>1, <4>2, <4>3 DEF LoginInv, PageInv, LoginForced
    <3> QED
      BY <2>3, <3>2, <3>3 DEF Granted
  <2> QED
    BY <1>8, <2>2, <2>3 DEF Exchange, Refused, CutOff
<1>9. CASE World
  <2>1. CodeInv'
    BY <1>0, <1>9 DEF CodeInv, World, loginVars
  <2>2. UNCHANGED pageVars /\ pc' = pc /\ session' = session
    BY <1>9 DEF World, loginVars
  <2> QED
    BY <1>0, <2>1, <2>2, PagesRest DEF LoginInv
<1>10. CASE UNCHANGED vars
  <2>1. CodeInv'
    BY <1>0, <1>10 DEF CodeInv, vars, loginVars
  <2>2. UNCHANGED pageVars /\ pc' = pc /\ session' = session
    BY <1>10 DEF vars, loginVars
  <2> QED
    BY <1>0, <2>1, <2>2, PagesRest DEF LoginInv
<1> QED
  BY <1>1, <1>2, <1>3, <1>4, <1>5, <1>6, <1>7, <1>8, <1>9, <1>10 DEF Next

LEMMA LoginInvHolds == Spec => []LoginInv
<1>1. Init => LoginInv
  BY LoginInvInit
<1>2. LoginInv /\ [Next]_vars => LoginInv'
  BY LoginInvNext
<1> QED
  BY <1>1, <1>2, PTL DEF Spec

\* However requests fail in the middle of change_page, there is one page to be
\* seen, and only that of Spotify can be marked as shown besides.
THEOREM PageVisible == Spec => []OnePageVisible
<1>1. LoginInv => OnePageVisible
  BY DEF LoginInv, PageInv, Visible, OnePageVisible
<1> QED
  BY <1>1, LoginInvHolds, PTL

\* However logins fail, no page but the first is reached without a session.
THEOREM ForcesLogin == Spec => []LoginForced
<1>1. LoginInv => LoginForced
  BY DEF LoginInv
<1> QED
  BY <1>1, LoginInvHolds, PTL

-----------------------------------------------------------------------------
(***************************************************************************)
(* The session is that of the user who granted access last.                *)
(***************************************************************************)

Used(c) == c \in spent \cup {NoCode}

\* Nothing is under way: the code kept serves nobody.
Settled == backlog = <<>> /\ session = granted /\ Used(code)

\* A code serves the user who granted access last, or nobody, and then the
\* session is theirs already.
Serves(c) ==
  \/ Used(c) /\ session = granted
  \/ ~ Used(c) /\ c.user = granted

\* The four stages of a login. What comes in is new: no code of its window has
\* been exchanged.
InStep ==
  \/ pc \in {"rest", "song"} /\ Settled
  \/ /\ pc = "browser" /\ answered = FALSE /\ Settled
     /\ \A c \in spent : c.window < window
  \/ /\ pc = "browser" /\ answered = TRUE /\ Len(backlog) = 1 /\ Used(code)
     /\ Serves(backlog[1])
  \/ pc = "token" /\ backlog = <<>> /\ Serves(code)

\* No window is numbered before it opens.
WindowInv ==
  /\ spent \subseteq Codes
  /\ \A c \in spent : c.window <= window
  /\ \A i \in 1 .. Len(backlog) : backlog[i].window <= window
  /\ code.window <= window

SessionInv ==
  /\ WindowInv
  /\ answered \in BOOLEAN /\ disturbed \in BOOLEAN
  /\ disturbed = FALSE => InStep

LEMMA SessionInvInit == Init => SessionInv
<1> SUFFICES ASSUME Init PROVE SessionInv
  OBVIOUS
<1>1. WindowInv
  BY DEF Init, WindowInv, NoCode
<1>2. answered \in BOOLEAN /\ disturbed \in BOOLEAN
  BY Zenon DEF Init
<1>3. InStep
  BY DEF Init, InStep, Settled, Used
<1> QED
  BY <1>1, <1>2, <1>3 DEF SessionInv

\* A step that leaves the login alone.
LEMMA LoginRests ==
  ASSUME SessionInv, UNCHANGED loginVars,
         \/ pc' = pc
         \/ pc \in {"rest", "song"} /\ pc' \in {"rest", "song"}
  PROVE  SessionInv'
<1>1. WindowInv'
  BY DEF SessionInv, WindowInv, loginVars
<1>2. UNCHANGED <<answered, disturbed>>
  BY Zenon DEF loginVars
<1>3. ASSUME InStep PROVE InStep'
  BY <1>2, <1>3 DEF InStep, Settled, Serves, Used, loginVars
<1> QED
  BY <1>1, <1>2, <1>3 DEF SessionInv

\* The user presses a button that logs in: a new window opens.
LEMMA SessionAuthorize ==
  ASSUME CodeInv, SessionInv, authorize
  PROVE  SessionInv'
<1>1. /\ UNCHANGED <<backlog, code, session, spent, granted, disturbed>>
      /\ window' = window + 1 /\ answered' = FALSE
      /\ pc = "rest" /\ pc' = "browser"
  BY Zenon DEF authorize
<1>2. window \in Nat /\ spent \subseteq Codes /\ code.window \in Int
  BY DEF CodeInv, SessionInv, WindowInv, Codes, NoCode
<1>3. \A c \in Codes : c.window \in Nat
  BY DEF Codes, NoCode
<1>4. \A i \in 1 .. Len(backlog) : backlog[i].window \in Nat
  BY <1>3 DEF CodeInv
<1>5. WindowInv'
  BY <1>1, <1>2, <1>3, <1>4 DEF SessionInv, WindowInv
<1>6. \A c \in spent : c.window < window'
  BY <1>1, <1>2, <1>3 DEF SessionInv, WindowInv
<1>7. ASSUME disturbed = FALSE PROVE InStep'
  <2>1. Settled
    BY <1>1, <1>7 DEF SessionInv, InStep
  <2>2. Settled'
    BY <1>1, <2>1 DEF Settled, Used
  <2> QED
    BY <1>1, <1>6, <2>2 DEF InStep
<1>8. answered' \in BOOLEAN /\ disturbed' \in BOOLEAN
  BY <1>1, Zenon DEF SessionInv
<1> QED
  BY <1>1, <1>5, <1>7, <1>8 DEF SessionInv

\* The browser sends its answer.
LEMMA SessionAnswer ==
  ASSUME CodeInv, SessionInv, Answer
  PROVE  SessionInv'
<1>1. /\ UNCHANGED <<pc, code, session, window, spent, disturbed>>
      /\ answered = FALSE /\ answered' = TRUE /\ pc = "browser"
  <2>1. answered \in BOOLEAN /\ ~ answered
    BY Zenon DEF SessionInv, Answer
  <2>2. answered = FALSE
    BY <2>1, Zenon
  <2> QED
    BY <2>2, Zenon DEF Answer
<1>2. PICK c \in Codes :
        /\ backlog' = Append(backlog, c)
        /\ \/ c = [user |-> granted', window |-> window] /\ granted' \in Users
           \/ c = NoCode /\ granted' = granted
  BY AnswerSends
<1>3. c.window <= window
  BY <1>2 DEF CodeInv, NoCode
<1>4. Len(backlog') = Len(backlog) + 1
  /\ \A i \in 1 .. Len(backlog') :
       backlog'[i] = IF i <= Len(backlog) THEN backlog[i] ELSE c
  BY <1>2 DEF CodeInv
<1>5. WindowInv'
  <2>1. \A i \in 1 .. Len(backlog') : i <= Len(backlog) => i \in 1 .. Len(backlog)
    BY <1>4 DEF CodeInv
  <2>2. \A i \in 1 .. Len(backlog') : backlog'[i].window <= window
    BY <1>3, <1>4, <2>1 DEF SessionInv, WindowInv
  <2> QED
    BY <1>1, <2>2 DEF SessionInv, WindowInv
<1>6. ASSUME disturbed = FALSE PROVE InStep'
  <2>1. Settled /\ \A d \in spent : d.window < window
    BY <1>1, <1>6 DEF SessionInv, InStep
  <2>2. Len(backlog') = 1 /\ backlog'[1] = c
    BY <1>4, <2>1 DEF Settled
  <2>3. CASE c = NoCode /\ granted' = granted
    BY <1>1, <2>1, <2>2, <2>3 DEF InStep, Settled, Serves, Used
  <2>4. CASE c = [user |-> granted', window |-> window] /\ granted' \in Users
    <3>1. c \notin spent
      BY <2>1, <2>4 DEF CodeInv
    <3>2. c # NoCode
      BY <2>4, PagesAssumption DEF NoCode
    <3> QED
      BY <1>1, <2>1, <2>2, <2>4, <3>1, <3>2 DEF InStep, Settled, Serves, Used
  <2> QED
    BY <1>2, <2>3, <2>4
<1>7. answered' \in BOOLEAN /\ disturbed' \in BOOLEAN
  BY <1>1, Zenon DEF SessionInv
<1> QED
  BY <1>1, <1>5, <1>6, <1>7 DEF SessionInv

\* A stray request puts the login and the session out of step, no more.
LEMMA SessionStray ==
  ASSUME CodeInv, SessionInv, Stray
  PROVE  SessionInv'
<1>1. /\ UNCHANGED <<code, session, window, spent, answered>>
      /\ disturbed' = TRUE /\ backlog' = Append(backlog, NoCode)
  BY Zenon DEF Stray
<1>2. Len(backlog') = Len(backlog) + 1
  /\ \A i \in 1 .. Len(backlog') :
       backlog'[i] = IF i <= Len(backlog) THEN backlog[i] ELSE NoCode
  BY <1>1 DEF CodeInv, Codes
<1>3. WindowInv'
  <2>1. \A i \in 1 .. Len(backlog') : i <= Len(backlog) => i \in 1 .. Len(backlog)
    BY <1>2 DEF CodeInv
  <2>2. \A i \in 1 .. Len(backlog') : backlog'[i].window <= window
    BY <1>2, <2>1 DEF SessionInv, WindowInv, CodeInv, NoCode
  <2> QED
    BY <1>1, <2>2 DEF SessionInv, WindowInv
<1>4. answered' \in BOOLEAN /\ disturbed' \in BOOLEAN
  BY <1>1, Zenon DEF SessionInv
<1> QED
  BY <1>1, <1>3, <1>4 DEF SessionInv

\* The oldest request is handled.
LEMMA Session_getinc ==
  ASSUME CodeInv, SessionInv, getinc
  PROVE  SessionInv'
<1>1. /\ UNCHANGED <<session, window, answered, spent, granted, disturbed>>
      /\ pc = "browser" /\ pc' = "token"
      /\ backlog # <<>> /\ backlog' = Tail(backlog)
      /\ code' = IF Head(backlog) = NoCode THEN code ELSE Head(backlog)
  BY Zenon DEF getinc
<1>2. /\ Len(backlog) \in Nat \ {0} /\ Head(backlog) = backlog[1]
      /\ Len(backlog') = Len(backlog) - 1
      /\ \A i \in 1 .. Len(backlog') : backlog'[i] = backlog[i + 1]
  BY <1>1 DEF CodeInv
<1>3. WindowInv'
  <2>1. \A i \in 1 .. Len(backlog') : i + 1 \in 1 .. Len(backlog)
    BY <1>2
  <2>2. \A i \in 1 .. Len(backlog') : backlog'[i].window <= window
    BY <1>2, <2>1 DEF SessionInv, WindowInv
  <2>3. code' \in {code, backlog[1]}
    BY <1>1, <1>2
  <2>4. code'.window <= window
    BY <1>2, <2>3 DEF SessionInv, WindowInv
  <2> QED
    BY <1>1, <2>2, <2>4 DEF SessionInv, WindowInv
<1>4. ASSUME disturbed = FALSE PROVE InStep'
  <2>1. Len(backlog) = 1 /\ Used(code) /\ Serves(backlog[1])
    BY <1>1, <1>2, <1>4 DEF SessionInv, InStep, Settled
  <2>2. backlog' = <<>>
    BY <1>1, <2>1 DEF CodeInv
  <2>3. Serves(code)'
    <3>1. CASE backlog[1] = NoCode
      BY <1>1, <1>2, <2>1, <3>1 DEF Serves, Used
    <3>2. CASE backlog[1] # NoCode
      BY <1>1, <1>2, <2>1, <3>2 DEF Serves, Used
    <3> QED
      BY <3>1, <3>2
  <2> QED
    BY <1>1, <2>2, <2>3 DEF InStep
<1>5. answered' \in BOOLEAN /\ disturbed' \in BOOLEAN
  BY <1>1, Zenon DEF SessionInv
<1> QED
  BY <1>1, <1>3, <1>4, <1>5 DEF SessionInv

\* The code is exchanged, or not.
LEMMA SessionExchange ==
  ASSUME CodeInv, SessionInv, Exchange
  PROVE  SessionInv'
<1>1. /\ UNCHANGED <<backlog, code, window, answered, granted>>
      /\ pc = "token" /\ pc' = "rest"
      /\ Granted \/ Refused \/ CutOff
  BY Zenon DEF Exchange
<1>2. spent' \in {spent, spent \cup {code}}
  <2>1. CASE code = NoCode
    <3>1. {code} \ {NoCode} = {}
      BY <2>1
    <3> QED
      BY <1>1, <2>1, <3>1 DEF Granted, Refused, CutOff
  <2>2. CASE code # NoCode
    <3>1. {code} \ {NoCode} = {code}
      BY <2>2
    <3> QED
      BY <1>1, <3>1 DEF Granted, Refused, CutOff
  <2> QED
    BY <2>1, <2>2
<1>3. WindowInv'
  BY <1>1, <1>2 DEF SessionInv, WindowInv, CodeInv
<1>4. \/ disturbed' = TRUE
      \/ disturbed' = disturbed /\ (disturbed = FALSE => InStep')
  <2>1. CASE CutOff
    BY <2>1, Zenon DEF CutOff
  <2>2. CASE Granted
    <3>1. disturbed' = disturbed
      BY <2>2, Zenon DEF Granted
    <3>2. ASSUME disturbed = FALSE PROVE InStep'
      <4>1. backlog = <<>> /\ Serves(code)
        BY <1>1, <3>2 DEF SessionInv, InStep
      <4>2. code.user = granted /\ session' = code.user /\ code \in spent'
        BY <2>2, <4>1 DEF Granted, Serves, Used
      <4> QED
        BY <1>1, <4>1, <4>2 DEF InStep, Settled, Used
    <3> QED
      BY <3>1, <3>2, Zenon
  <2>3. CASE Refused
    <3>1. disturbed' = disturbed
      BY <2>3, Zenon DEF Refused
    <3>2. ASSUME disturbed = FALSE PROVE InStep'
      <4>1. backlog = <<>> /\ Serves(code)
        BY <1>1, <3>2 DEF SessionInv, InStep
      <4>2. Used(code) /\ session = granted /\ UNCHANGED <<spent, session>>
        BY <2>3, <4>1 DEF Refused, Serves, Used
      <4> QED
        BY <1>1, <4>1, <4>2 DEF InStep, Settled, Used
    <3> QED
      BY <3>1, <3>2, Zenon
  <2> QED
    BY <1>1, <2>1, <2>2, <2>3
<1>5. disturbed' \in BOOLEAN /\ answered' \in BOOLEAN
  BY <1>1, <1>4, Zenon DEF SessionInv
<1>6. ASSUME disturbed' = FALSE PROVE InStep'
  <2>1. disturbed' # TRUE
    BY <1>6
  <2> QED
    BY <1>4, <1>6, <2>1, Zenon
<1> QED
  BY <1>3, <1>5, <1>6 DEF SessionInv

LEMMA SessionInvNext == CodeInv /\ SessionInv /\ [Next]_vars => SessionInv'
<1> SUFFICES ASSUME CodeInv, SessionInv, [Next]_vars PROVE SessionInv'
  OBVIOUS
<1>1. ASSUME NEW page \in Pages, PressPage(page) PROVE SessionInv'
  BY <1>1, LoginRests DEF PressPage
<1>2. CASE show_page
  BY <1>2, LoginRests DEF show_page
<1>3. CASE show_pageRaises
  BY <1>3, LoginRests DEF show_pageRaises
<1>4. CASE World
  BY <1>4, LoginRests DEF World
<1>5. CASE UNCHANGED vars
  BY <1>5, LoginRests DEF vars
<1> QED
  BY <1>1, <1>2, <1>3, <1>4, <1>5, SessionAuthorize, SessionAnswer, SessionStray,
     Session_getinc, SessionExchange DEF Next

\* While no stray request comes and no exchange is cut off, the session is that
\* of the user who granted access last, however many of them refuse.
THEOREM SessionFollows == Spec => []SessionIsGranted
<1>1. Init => SessionInv
  BY SessionInvInit
<1>2. LoginInv /\ SessionInv /\ [Next]_vars => SessionInv'
  BY SessionInvNext DEF LoginInv
<1>3. SessionInv => SessionIsGranted
  <2> SUFFICES ASSUME SessionInv, pc = "rest", ~ disturbed
               PROVE  session = granted
    BY Zenon DEF SessionIsGranted
  <2>1. disturbed = FALSE
    BY Zenon DEF SessionInv
  <2> QED
    BY <2>1 DEF SessionInv, InStep, Settled
<1> QED
  BY <1>1, <1>2, <1>3, LoginInvHolds, PTL DEF Spec

-----------------------------------------------------------------------------
(***************************************************************************)
(* Types. A code carries the number of a window that has been opened, so   *)
(* the set they come from grows with the windows.                          *)
(***************************************************************************)

Given(w) == [user : Users, window : 1 .. w] \cup {NoCode}

FlagTypes ==
  /\ then \in BOOLEAN /\ expired \in BOOLEAN /\ song \in BOOLEAN
  /\ answered \in BOOLEAN /\ disturbed \in BOOLEAN

CodeTypes ==
  /\ backlog \in Seq(Given(window)) /\ code \in Given(window)
  /\ spent \subseteq Given(window)
  /\ session \in Users \cup {NoUser} /\ granted \in Users \cup {NoUser}

\* The browser is waited for only when a window is open.
CountTypes ==
  /\ pc \in {"rest", "browser", "token", "song"}
  /\ window \in 0 .. events /\ events \in 0 .. MaxEvents
  /\ pc = "browser" => window # 0

TypeInv == FlagTypes /\ CodeTypes /\ CountTypes

LEMMA TypeInvInit == Init => TypeInv
<1> SUFFICES ASSUME Init PROVE TypeInv
  OBVIOUS
<1>1. FlagTypes
  BY Zenon DEF Init, FlagTypes
<1>2. CodeTypes /\ CountTypes
  BY PagesAssumption DEF Init, CodeTypes, CountTypes, Given
<1> QED
  BY <1>1, <1>2 DEF TypeInv

\* What a window has given stays given when the next one opens.
LEMMA GivenGrows ==
  ASSUME NEW w \in Nat
  PROVE  Given(w) \subseteq Given(w + 1) /\ Seq(Given(w)) \subseteq Seq(Given(w + 1))
<1>1. 1 .. w \subseteq 1 .. w + 1
  OBVIOUS
<1>2. Given(w) \subseteq Given(w + 1)
  BY <1>1 DEF Given
<1>3. \A S, T : S \subseteq T => Seq(S) \subseteq Seq(T)
  OBVIOUS
<1> QED
  BY <1>2, <1>3

\* An event is counted.
LEMMA EventCounts ==
  ASSUME CountTypes, Event, window' \in {window, window + 1}
  PROVE  window' \in 0 .. events' /\ events' \in 0 .. MaxEvents
BY PagesAssumption DEF CountTypes, Event

\* A step that leaves the login alone.
LEMMA TypesRest ==
  ASSUME TypeInv, UNCHANGED loginVars, song' \in BOOLEAN, expired' \in BOOLEAN,
         \/ pc' = pc
         \/ pc' \in {"rest", "song"},
         \/ events' = events
         \/ Event
  PROVE  TypeInv'
<1>1. FlagTypes'
  <2>1. UNCHANGED <<then, answered, disturbed>>
    BY Zenon DEF loginVars
  <2>2. then' \in BOOLEAN /\ answered' \in BOOLEAN /\ disturbed' \in BOOLEAN
    BY <2>1, Zenon DEF TypeInv, FlagTypes
  <2> QED
    BY <2>2, Zenon DEF FlagTypes
<1>2. window' = window
  BY DEF loginVars
<1>3. CodeTypes'
  BY DEF TypeInv, CodeTypes, loginVars
<1>4. CountTypes'
  <2>1. window' \in 0 .. events' /\ events' \in 0 .. MaxEvents
    <3>1. CASE events' = events
      BY <1>2, <3>1 DEF TypeInv, CountTypes
    <3>2. CASE Event
      BY <1>2, <3>2, EventCounts DEF TypeInv
    <3> QED
      BY <3>1, <3>2
  <2> QED
    BY <1>2, <2>1 DEF TypeInv, CountTypes
<1> QED
  BY <1>1, <1>3, <1>4 DEF TypeInv

LEMMA TypeInvNext == TypeInv /\ [Next]_vars => TypeInv'
<1> SUFFICES ASSUME TypeInv, [Next]_vars PROVE TypeInv'
  OBVIOUS
<1>0. /\ then \in BOOLEAN /\ expired \in BOOLEAN /\ song \in BOOLEAN
      /\ answered \in BOOLEAN /\ disturbed \in BOOLEAN
  BY DEF TypeInv, FlagTypes
<1>1. ASSUME NEW page \in Pages, PressPage(page) PROVE TypeInv'
  <2>1. UNCHANGED loginVars /\ Event /\ pc' \in {"rest", "song"}
    BY <1>1 DEF PressPage
  <2>2. song' \in BOOLEAN /\ expired' \in BOOLEAN
    BY <1>0, <1>1, Zenon DEF PressPage, worldVars
  <2> QED
    BY <2>1, <2>2, TypesRest
<1>2. CASE show_page \/ show_pageRaises
  <2>1. UNCHANGED loginVars /\ events' = events /\ pc' = "rest"
    BY <1>2 DEF show_page, show_pageRaises
  <2>2. song' \in BOOLEAN /\ expired' \in BOOLEAN
    BY <1>0, <1>2, Zenon DEF show_page, show_pageRaises, worldVars
  <2> QED
    BY <2>1, <2>2, TypesRest
<1>3. CASE authorize
  <2>1. /\ UNCHANGED <<backlog, code, session, spent, granted>>
        /\ Event /\ window' = window + 1 /\ pc' = "browser"
    BY <1>3 DEF authorize
  <2>2. FlagTypes'
    BY <1>0, <1>3, Zenon DEF authorize, FlagTypes, worldVars
  <2>3. window \in Nat
    BY DEF TypeInv, CountTypes
  <2>4. CodeTypes'
    BY <2>1, <2>3, GivenGrows DEF TypeInv, CodeTypes
  <2>5. CountTypes'
    <3>1. window' \in 0 .. events' /\ events' \in 0 .. MaxEvents
      BY <2>1, EventCounts DEF TypeInv
    <3> QED
      BY <2>1, <2>3, <3>1 DEF CountTypes
  <2> QED
    BY <2>2, <2>4, <2>5 DEF TypeInv
<1>4. CASE Answer
  <2>1. UNCHANGED <<pc, code, session, window, spent, events>> /\ pc = "browser"
    BY <1>4 DEF Answer
  <2>2. FlagTypes'
    BY <1>0, <1>4, Zenon DEF Answer, FlagTypes, worldVars
  <2>3. window \in 1 .. window
    BY <2>1 DEF TypeInv, CountTypes
  <2>4. \E c \in Given(window) : backlog' = Append(backlog, c)
    <3>1. CASE backlog' = Append(backlog, NoCode)
      BY <3>1 DEF Given
    <3>2. CASE \E user \in Users :
                 backlog' = Append(backlog, [user |-> user, window |-> window])
      BY <2>3, <3>2 DEF Given
    <3> QED
      BY <1>4, <3>1, <3>2 DEF Answer
  <2>5. granted' \in Users \cup {NoUser}
    BY <1>4 DEF Answer, TypeInv, CodeTypes
  <2>6. CodeTypes'
    BY <2>1, <2>4, <2>5, AppendProperties DEF TypeInv, CodeTypes
  <2>7. CountTypes'
    BY <2>1 DEF TypeInv, CountTypes
  <2> QED
    BY <2>2, <2>6, <2>7 DEF TypeInv
<1>5. CASE Stray
  <2>1. /\ UNCHANGED <<pc, code, session, window, spent, granted>> /\ Event
        /\ backlog' = Append(backlog, NoCode)
    BY <1>5 DEF Stray
  <2>2. FlagTypes'
    BY <1>0, <1>5, Zenon DEF Stray, FlagTypes, worldVars
  <2>3. NoCode \in Given(window)
    BY DEF Given
  <2>4. CodeTypes'
    BY <2>1, <2>3, AppendProperties DEF TypeInv, CodeTypes
  <2>5. CountTypes'
    <3>1. window' \in 0 .. events' /\ events' \in 0 .. MaxEvents
      BY <2>1, EventCounts DEF TypeInv
    <3> QED
      BY <2>1, <3>1 DEF TypeInv, CountTypes
  <2> QED
    BY <2>2, <2>4, <2>5 DEF TypeInv
<1>6. CASE getinc
  <2>1. /\ UNCHANGED <<session, window, spent, granted, events>> /\ pc' = "token"
        /\ backlog # <<>> /\ backlog' = Tail(backlog)
        /\ code' \in {code, Head(backlog)}
    BY <1>6 DEF getinc
  <2>2. FlagTypes'
    BY <1>0, <1>6, Zenon DEF getinc, FlagTypes, worldVars
  <2>3. Head(backlog) \in Given(window) /\ Tail(backlog) \in Seq(Given(window))
    BY <2>1, HeadTailProperties DEF TypeInv, CodeTypes
  <2>4. CodeTypes'
    BY <2>1, <2>3 DEF TypeInv, CodeTypes
  <2>5. CountTypes'
    BY <2>1 DEF TypeInv, CountTypes
  <2> QED
    BY <2>2, <2>4, <2>5 DEF TypeInv
<1>7. CASE Exchange
  <2>1. UNCHANGED <<backlog, code, window, granted, events>> /\ pc' = "rest"
    BY <1>7 DEF Exchange
  <2>2. Granted \/ Refused \/ CutOff
    BY <1>7 DEF Exchange
  <2>3. FlagTypes'
    <3>1. UNCHANGED <<song, then, answered>>
      BY <1>7, Zenon DEF Exchange
    <3>2. expired' \in BOOLEAN /\ disturbed' \in BOOLEAN
      BY <1>0, <2>2, Zenon DEF Granted, Refused, CutOff
    <3> QED
      BY <1>0, <3>1, <3>2, Zenon DEF FlagTypes
  <2>4. spent' \subseteq spent \cup {code}
    BY <2>2 DEF Granted, Refused, CutOff
  <2>5. session' \in Users \cup {NoUser}
    <3>1. CASE Granted
      BY <3>1 DEF Granted, TypeInv, CodeTypes, Given
    <3>2. CASE Refused \/ CutOff
      BY <3>2 DEF Refused, CutOff, TypeInv, CodeTypes
    <3> QED
      BY <2>2, <3>1, <3>2
  <2>6. CodeTypes'
    BY <2>1, <2>4, <2>5 DEF TypeInv, CodeTypes
  <2>7. CountTypes'
    BY <2>1 DEF TypeInv, CountTypes
  <2> QED
    BY <2>3, <2>6, <2>7 DEF TypeInv
<1>8. CASE World
  <2>1. UNCHANGED loginVars /\ Event /\ pc' = pc
    BY <1>8 DEF World
  <2>2. song' \in BOOLEAN /\ expired' \in BOOLEAN
    BY <1>0, <1>8, Zenon DEF World
  <2> QED
    BY <2>1, <2>2, TypesRest
<1>9. CASE UNCHANGED vars
  <2>1. UNCHANGED <<loginVars, pc, events>>
    BY <1>9, Zenon DEF vars
  <2>2. song' \in BOOLEAN /\ expired' \in BOOLEAN
    BY <1>0, <1>9, Zenon DEF vars, worldVars
  <2> QED
    BY <2>1, <2>2, TypesRest
<1> QED
  BY <1>1, <1>2, <1>3, <1>4, <1>5, <1>6, <1>7, <1>8, <1>9 DEF Next

\* Everything is of its type, whatever fails: no code is exchanged or kept that
\* no window could have given, and no page is packed that is not marked shown.
THEOREM PagesTyped == Spec => []TypeOK
<1>1. Init => TypeInv
  BY TypeInvInit
<1>2. TypeInv /\ [Next]_vars => TypeInv'
  BY TypeInvNext
<1>3. LoginInv /\ TypeInv => TypeOK
  <2> SUFFICES ASSUME LoginInv, TypeInv PROVE TypeOK
    OBVIOUS
  <2>1. shown \subseteq Pages /\ packed \subseteq shown
    BY DEF LoginInv, PageInv, Visible, Pages
  <2>2. /\ then \in BOOLEAN /\ expired \in BOOLEAN /\ song \in BOOLEAN
        /\ answered \in BOOLEAN /\ disturbed \in BOOLEAN
    BY Zenon DEF TypeInv, FlagTypes
  <2> QED
    BY <2>1, <2>2 DEF TypeInv, CodeTypes, CountTypes, Given, TypeOK
<1> QED
  BY <1>1, <1>2, <1>3, LoginInvHolds, PTL DEF Spec
=============================================================================
