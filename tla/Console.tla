------------------------------ MODULE Console ------------------------------
(***************************************************************************)
(* The admin console in one browser: tabs that share the cookies of the    *)
(* provider session, of the console's CSRF token and of the login form's.  *)
(* Each tab keeps in memory the token it was given, so a tab that loads    *)
(* takes the token from the others.  Mutations pass the guards on session, *)
(* recent authentication and CSRF, in that order; the answer to a sign-in  *)
(* grown too old is a dialog that offers to sign in again.                 *)
(***************************************************************************)
EXTENDS Naturals

CONSTANTS
  Tab,
  Click,             \* the mutations a page can have under way, one a hook
  Nothing,
  RecentWindow,      \* adminRecentAuthWindowSeconds
  CsrfAge,           \* Max-Age of both CSRF cookies
  MaxConsoleClock    \* bound on the clock

(* 600 and 900 seconds as shipped; a window set to more than the cookie's  *)
(* age would make the console's tokens expire first.                       *)
ASSUME ConsoleAssumption ==
  /\ Nothing \notin Tab /\ Nothing \notin Click
  /\ RecentWindow \in Nat /\ CsrfAge \in Nat /\ MaxConsoleClock \in Nat
  /\ RecentWindow < CsrfAge

VARIABLES
  now,
  authAt,      \* when the browser's live session was authenticated
  csrf,        \* the console's CSRF cookie: which tab knows it, since when
  loginCsrf,   \* the login form's
  place,       \* what each tab shows
  ask,         \* the mutation whose promise the dialog of a tab holds
  click,       \* how far each mutation is
  lost,        \* history: mutations whose promise another one replaced
  disturbed    \* history: another tab loaded or signed in since this did

consoleVars ==
  <<now, authAt, csrf, loginCsrf, place, ask, click, lost, disturbed>>

-----------------------------------------------------------------------------
Moments == 0..MaxConsoleClock

(* A cookie with no holder carries a token that no page remembers.         *)
Cookie == [holder : Tab \cup {Nothing}, at : Moments]

ConsoleTypeOK ==
  /\ now \in Moments
  /\ authAt \in Moments \cup {Nothing}
  /\ csrf \in Cookie /\ loginCsrf \in Cookie
  /\ place \in [Tab -> {"loading", "console", "login", "reauth", "form"}]
  /\ ask \in [Tab -> Click \cup {Nothing}]
  /\ click \in [Tab -> [Click -> {"idle", "sent", "waiting"}]]
  /\ lost \in [Tab -> SUBSET Click]
  /\ disturbed \in [Tab -> BOOLEAN]

ConsoleInit ==
  /\ now = 0
  /\ authAt \in {0, Nothing}
  /\ csrf = [holder |-> Nothing, at |-> 0]
  /\ loginCsrf = [holder |-> Nothing, at |-> 0]
  /\ place = [t \in Tab |-> "login"]
  /\ ask = [t \in Tab |-> Nothing]
  /\ click = [t \in Tab |-> [m \in Click |-> "idle"]]
  /\ lost = [t \in Tab |-> {}]
  /\ disturbed = [t \in Tab |-> FALSE]

SignedIn == authAt # Nothing
RecentlySignedIn == SignedIn /\ now <= authAt + RecentWindow
Accepts(cookie, t) == cookie.holder = t /\ now < cookie.at + CsrfAge
Issued(t) == [holder |-> t, at |-> now]

(* A full navigation: nothing of the page is left.                         *)
Navigate(t, to) ==
  /\ place' = [place EXCEPT ![t] = to]
  /\ ask' = [ask EXCEPT ![t] = Nothing]
  /\ click' = [click EXCEPT ![t] = [m \in Click |-> "idle"]]
  /\ lost' = [lost EXCEPT ![t] = {}]

Stay == UNCHANGED <<place, ask, click, lost>>

Disturb(t) == disturbed' = [s \in Tab |-> s # t]

-----------------------------------------------------------------------------
(* Pages                                                                   *)

\* Mutant: the answer sets the cookie and the page keeps its older token.
LoadKeepingToken(t) ==
  /\ place[t] = "loading"
  /\ IF SignedIn
     THEN /\ csrf' = Issued(Nothing) /\ Disturb(t)
          /\ Navigate(t, "console")
     ELSE Navigate(t, "login") /\ UNCHANGED <<csrf, disturbed>>
  /\ UNCHANGED <<now, authAt, loginCsrf>>

(* SessionBoundary: the session, or off to the login page.                 *)
LoadConsole(t) ==
  /\ place[t] = "loading"
  /\ IF SignedIn
     THEN /\ csrf' = Issued(t) /\ Disturb(t)
          /\ Navigate(t, "console")
     ELSE Navigate(t, "login") /\ UNCHANGED <<csrf, disturbed>>
  /\ UNCHANGED <<now, authAt, loginCsrf>>

(* The login page asks for its own token and, unless it was opened to sign *)
(* in again, whether there is a session; that question replaces the        *)
(* console's cookie too.                                                   *)
OpenLogin(t) ==
  /\ place[t] \in {"login", "reauth"}
  /\ loginCsrf' = Issued(t)
  /\ IF place[t] = "login" /\ SignedIn
     THEN csrf' = Issued(Nothing) /\ Disturb(t) /\ Navigate(t, "loading")
     ELSE Navigate(t, "form") /\ UNCHANGED <<csrf, disturbed>>
  /\ UNCHANGED <<now, authAt>>

(* A sign-in that the server accepts; one it refuses changes nothing here. *)
SubmitLogin(t) ==
  /\ place[t] = "form"
  /\ Accepts(loginCsrf, t)
  /\ authAt' = now
  /\ loginCsrf' = Issued(Nothing)
  /\ Navigate(t, "loading") /\ Disturb(t)
  /\ UNCHANGED <<now, csrf>>

(* The pages of invites and resets ask for the session like the login page.*)
OpenLinkPage(t) ==
  /\ place[t] \in {"console", "form"}
  /\ IF SignedIn
     THEN csrf' = Issued(Nothing) /\ Disturb(t) /\ Navigate(t, "loading")
     ELSE Navigate(t, "login") /\ UNCHANGED <<csrf, disturbed>>
  /\ UNCHANGED <<now, authAt, loginCsrf>>

Reload(t) ==
  /\ place[t] \in {"console", "form"}
  /\ Navigate(t, "loading")
  /\ UNCHANGED <<now, authAt, csrf, loginCsrf, disturbed>>

(* The console leaves even if the request failed.                          *)
PerformLogout(t) ==
  /\ place[t] = "console"
  /\ authAt' \in {authAt, Nothing}
  /\ Navigate(t, "login")
  /\ UNCHANGED <<now, csrf, loginCsrf, disturbed>>

-----------------------------------------------------------------------------
(* Mutations                                                               *)

Mutate(t, m) ==
  /\ place[t] = "console"
  /\ click[t][m] = "idle" /\ ask[t] = Nothing
  /\ click' = [click EXCEPT ![t][m] = "sent"]
  /\ UNCHANGED <<now, authAt, csrf, loginCsrf, place, ask, lost, disturbed>>

(* The dialog holds one promise: that of an earlier mutation is lost.      *)
RequestReauth(t, m) ==
  /\ click' = [click EXCEPT ![t][m] = "waiting"]
  /\ ask' = [ask EXCEPT ![t] = m]
  /\ lost' = [lost EXCEPT ![t] = @ \cup ({ask[t]} \ {Nothing})]
  /\ UNCHANGED place

(* No session: off to the login page.  A sign-in too long ago: the dialog. *)
(* A refused token, a failure or success: the mutation ends.               *)
Answer(t, m) ==
  /\ click[t][m] = "sent"
  /\ \/ ~SignedIn /\ Navigate(t, "login")
     \/ SignedIn /\ ~RecentlySignedIn /\ RequestReauth(t, m)
     \/ /\ RecentlySignedIn
        /\ click' = [click EXCEPT ![t][m] = "idle"]
        /\ UNCHANGED <<place, ask, lost>>
  /\ UNCHANGED <<now, authAt, csrf, loginCsrf, disturbed>>

SignInAgain(t) ==
  /\ ask[t] # Nothing
  /\ Navigate(t, "reauth")
  /\ UNCHANGED <<now, authAt, csrf, loginCsrf, disturbed>>

\* Mutant: the dialog is closed and its promise left as it is.
CloseReauth(t) ==
  /\ ask[t] # Nothing
  /\ ask' = [ask EXCEPT ![t] = Nothing]
  /\ UNCHANGED <<now, authAt, csrf, loginCsrf, place, click, lost, disturbed>>

CancelReauth(t) ==
  /\ ask[t] # Nothing
  /\ click' = [click EXCEPT ![t][ask[t]] = "idle"]
  /\ ask' = [ask EXCEPT ![t] = Nothing]
  /\ UNCHANGED <<now, authAt, csrf, loginCsrf, place, lost, disturbed>>

-----------------------------------------------------------------------------
(* The session is logged out elsewhere, revoked or expires.                *)
SessionEnds ==
  /\ authAt' = Nothing
  /\ Stay
  /\ UNCHANGED <<now, csrf, loginCsrf, disturbed>>

ConsoleTick ==
  /\ now < MaxConsoleClock
  /\ now' = now + 1
  /\ Stay
  /\ UNCHANGED <<authAt, csrf, loginCsrf, disturbed>>

ConsoleNext ==
  \/ \E t \in Tab :
       \/ LoadConsole(t) \/ OpenLogin(t) \/ SubmitLogin(t)
       \/ OpenLinkPage(t) \/ Reload(t) \/ PerformLogout(t)
       \/ SignInAgain(t) \/ CancelReauth(t)
       \/ \E m \in Click : Mutate(t, m) \/ Answer(t, m)
  \/ SessionEnds \/ ConsoleTick

(* Requests are answered, and the administrator answers a dialog.          *)
ConsoleFairness ==
  \A t \in Tab :
    /\ \A m \in Click : WF_consoleVars(Answer(t, m))
    /\ WF_consoleVars(SignInAgain(t) \/ CancelReauth(t))

ConsoleSpec == ConsoleInit /\ [][ConsoleNext]_consoleVars

-----------------------------------------------------------------------------
(* A tab that no other tab disturbed is never refused its CSRF token: as   *)
(* long as the sign-in is recent enough for a mutation, the cookie is the  *)
(* tab's own and has not expired.                                          *)
TokenOutlivesWindow ==
  \A t \in Tab :
    place[t] = "console" /\ ~disturbed[t] /\ RecentlySignedIn =>
      Accepts(csrf, t)

(* What keeps it: a tab alone has the cookie's token, given to it after    *)
(* the sign-in it was loaded with.                                         *)
ConsoleIndInv ==
  /\ ConsoleTypeOK
  /\ TokenOutlivesWindow
  /\ csrf.at <= now /\ (SignedIn => authAt <= now)
  /\ \A t \in Tab :
       /\ place[t] = "console" /\ ~disturbed[t] =>
            csrf.holder = t /\ (SignedIn => authAt <= csrf.at)
       /\ place[t] # "console" => \A m \in Click : click[t][m] = "idle"
       /\ ask[t] # Nothing => click[t][ask[t]] = "waiting"
       /\ \A m \in Click :
            click[t][m] = "waiting" => m = ask[t] \/ m \in lost[t]

(* Every mutation ends, with an answer or because the administrator left   *)
(* or cancelled, except one whose promise the dialog forgot: its button    *)
(* stays disabled until the page is left.                                  *)
MutationsEnd ==
  \A t \in Tab, m \in Click :
    click[t][m] # "idle" ~> click[t][m] = "idle" \/ m \in lost[t]
=============================================================================
