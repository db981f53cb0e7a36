------------------------ MODULE ConsolePages_proofs -------------------------
(***************************************************************************)
(* Proofs about what the console does between two requests, for any pages, *)
(* fields, values, tabs and clicks: the forms and dialogs of a page, the   *)
(* sign-in that a mutation may need, and a long list that is read page by  *)
(* page while it changes, for any number of rows and any size of a page.   *)
(***************************************************************************)
EXTENDS ConsoleForms, Console, Pagination, FiniteSetTheorems,
        WellFoundedInduction, TLAPS

USE FormsAssumption

-----------------------------------------------------------------------------
(* The invariant, page by page.                                            *)

(* The types of what page w keeps.                                         *)
PageTyped(w) ==
  /\ cached[w].fields \in Fields /\ cached[w].status \in UserStatus
  /\ form[w] \in Fields /\ edited[w] \in SUBSET Field
  /\ dialog[w] \in Destructive \cup {Closed}
  /\ behind[w] \in SUBSET Field /\ moved[w] \in BOOLEAN

(* What the form of page w shows, and what its last fetch is worth.        *)
FormGood(w) ==
  /\ \A f \in Field \ edited[w] : form[w][f] = cached[w].fields[f]
  /\ \A f \in Field \ behind[w] : cached[w].fields[f] = fields[f]

(* A dialog asks for a transition that is still possible, or it has moved. *)
DialogGood(w) ==
  dialog[w] # Closed /\ ~moved[w] => dialog[w] \in AvailableTransitions(status)

(* What the forms show implies what they may revert.                       *)
LEMMA UnseenByForm ==
  ASSUME \A w \in Viewer : FormGood(w)
  PROVE  RevertsOnlyUnseen
BY DEF FormGood, RevertsOnlyUnseen

(* The invariant is its types and the pages one by one.                    *)
LEMMA ByPage ==
  FormsIndInv <=> FormsTypeOK /\ \A w \in Viewer : FormGood(w) /\ DialogGood(w)
BY UnseenByForm DEF FormsIndInv, FormGood, DialogGood

(* The same of the next state.                                             *)
LEMMA ByPageNext ==
  ASSUME FormsTypeOK', \A w \in Viewer : FormGood(w)' /\ DialogGood(w)'
  PROVE  FormsIndInv'
BY DEF FormsIndInv, FormGood, DialogGood, RevertsOnlyUnseen

-----------------------------------------------------------------------------
(* A fetch resets the form unless the values are the same.                 *)
LEMMA FetchKeeps ==
  ASSUME FormsIndInv, NEW v \in Viewer, Fetch(v)
  PROVE  FormsIndInv'
<1>1. FormsTypeOK /\ \A w \in Viewer : FormGood(w) /\ DialogGood(w)
  BY ByPage
<1>2. FormsTypeOK'
  BY <1>1 DEF FormsTypeOK, Fetch
<1>3. ASSUME NEW w \in Viewer PROVE FormGood(w)'
  <2>1. CASE w = v /\ cached[v].fields # fields
    BY <1>1, <2>1 DEF FormsTypeOK, Fields, Fetch, FormGood
  <2>2. CASE w = v /\ cached[v].fields = fields
    BY <1>1, <2>2 DEF FormsTypeOK, Fields, Fetch, FormGood
  <2>3. CASE w # v
    BY <1>1, <2>3 DEF FormsTypeOK, Fields, Fetch, FormGood
  <2> QED
    BY <2>1, <2>2, <2>3
<1>4. ASSUME NEW w \in Viewer PROVE DialogGood(w)'
  BY <1>1 DEF Fetch, DialogGood
<1> QED
  BY <1>2, <1>3, <1>4, ByPageNext

(* A field that is typed in counts as edited.                              *)
LEMMA EditKeeps ==
  ASSUME FormsIndInv, NEW v \in Viewer, NEW g \in Field, NEW x \in Value,
         Edit(v, g, x)
  PROVE  FormsIndInv'
<1>1. FormsTypeOK /\ \A w \in Viewer : FormGood(w) /\ DialogGood(w)
  BY ByPage
<1>2. FormsTypeOK'
  BY <1>1 DEF FormsTypeOK, Fields, Edit
<1>3. ASSUME NEW w \in Viewer PROVE FormGood(w)'
  BY <1>1 DEF FormsTypeOK, Fields, Edit, FormGood
<1>4. ASSUME NEW w \in Viewer PROVE DialogGood(w)'
  BY <1>1 DEF Edit, DialogGood
<1> QED
  BY <1>2, <1>3, <1>4, ByPageNext

(* The form goes back to what was fetched.                                 *)
LEMMA CancelKeeps ==
  ASSUME FormsIndInv, NEW v \in Viewer, CancelEdit(v)
  PROVE  FormsIndInv'
<1>1. FormsTypeOK /\ \A w \in Viewer : FormGood(w) /\ DialogGood(w)
  BY ByPage
<1>2. FormsTypeOK'
  BY <1>1 DEF FormsTypeOK, CancelEdit
<1>3. ASSUME NEW w \in Viewer PROVE FormGood(w)'
  BY <1>1 DEF FormsTypeOK, CancelEdit, FormGood
<1>4. ASSUME NEW w \in Viewer PROVE DialogGood(w)'
  BY <1>1 DEF CancelEdit, DialogGood
<1> QED
  BY <1>2, <1>3, <1>4, ByPageNext

(* All pages fall behind in the fields that a save changes.                *)
LEMMA SaveKeeps ==
  ASSUME FormsIndInv, NEW v \in Viewer, SaveForm(v)
  PROVE  FormsIndInv'
<1>1. FormsTypeOK /\ \A w \in Viewer : FormGood(w) /\ DialogGood(w)
  BY ByPage
<1>2. FormsTypeOK'
  BY <1>1 DEF FormsTypeOK, SaveForm
<1>3. ASSUME NEW w \in Viewer PROVE FormGood(w)'
  BY <1>1 DEF FormsTypeOK, SaveForm, FormGood
<1>4. ASSUME NEW w \in Viewer PROVE DialogGood(w)'
  BY <1>1 DEF SaveForm, DialogGood
<1> QED
  BY <1>2, <1>3, <1>4, ByPageNext

(* The transitions are statuses.                                           *)
LEMMA TransitionsAreStatuses ==
  \A s \in UserStatus : AvailableTransitions(s) \subseteq UserStatus
BY DEF UserStatus, AvailableTransitions

(* A status that is set at once moves it behind open dialogs.              *)
LEMMA TransitionKeeps ==
  ASSUME FormsIndInv, NEW v \in Viewer, Transition(v)
  PROVE  FormsIndInv'
<1>1. FormsTypeOK /\ \A w \in Viewer : FormGood(w) /\ DialogGood(w)
  BY ByPage
<1>2. PICK s \in AvailableTransitions(cached[v].status) : SetStatus(s)
  BY DEF Transition
<1>3. s \in UserStatus
  BY <1>1, <1>2, TransitionsAreStatuses DEF FormsTypeOK
<1>4. FormsTypeOK'
  BY <1>1, <1>2, <1>3 DEF FormsTypeOK, Transition, SetStatus
<1>5. ASSUME NEW w \in Viewer PROVE FormGood(w)'
  BY <1>1 DEF Transition, FormGood
<1>6. ASSUME NEW w \in Viewer PROVE DialogGood(w)'
  BY <1>1, <1>2 DEF FormsTypeOK, Transition, SetStatus, DialogGood
<1> QED
  BY <1>4, <1>5, <1>6, ByPageNext

(* A dialog opens on the transitions of the fetched status.                *)
LEMMA OpenKeeps ==
  ASSUME FormsIndInv, NEW v \in Viewer, OpenDialog(v)
  PROVE  FormsIndInv'
<1>1. FormsTypeOK /\ \A w \in Viewer : FormGood(w) /\ DialogGood(w)
  BY ByPage
<1>2. PICK s \in AvailableTransitions(cached[v].status) \cap Destructive :
        dialog' = [dialog EXCEPT ![v] = s]
  BY DEF OpenDialog
<1>3. FormsTypeOK'
  BY <1>1, <1>2 DEF FormsTypeOK, OpenDialog
<1>4. ASSUME NEW w \in Viewer PROVE FormGood(w)'
  BY <1>1 DEF OpenDialog, FormGood
<1>5. ASSUME NEW w \in Viewer PROVE DialogGood(w)'
  <2>1. CASE w = v
    BY <1>1, <1>2, <2>1 DEF FormsTypeOK, OpenDialog, DialogGood
  <2>2. CASE w # v
    BY <1>1, <1>2, <2>2 DEF FormsTypeOK, OpenDialog, DialogGood
  <2> QED
    BY <2>1, <2>2
<1> QED
  BY <1>3, <1>4, <1>5, ByPageNext

(* A dialog sets the status it was opened with, and closes.                *)
LEMMA ConfirmKeeps ==
  ASSUME FormsIndInv, NEW v \in Viewer, Confirm(v)
  PROVE  FormsIndInv'
<1>1. FormsTypeOK /\ \A w \in Viewer : FormGood(w) /\ DialogGood(w)
  BY ByPage
<1>2. dialog[v] \in UserStatus
  BY <1>1 DEF FormsTypeOK, Confirm, Destructive, UserStatus
<1>3. FormsTypeOK'
  BY <1>1, <1>2 DEF FormsTypeOK, Confirm
<1>4. ASSUME NEW w \in Viewer PROVE FormGood(w)'
  BY <1>1 DEF Confirm, FormGood
<1>5. ASSUME NEW w \in Viewer PROVE DialogGood(w)'
  BY <1>1 DEF FormsTypeOK, Confirm, DialogGood
<1> QED
  BY <1>3, <1>4, <1>5, ByPageNext

(* A dialog closes.                                                        *)
LEMMA CloseKeeps ==
  ASSUME FormsIndInv, NEW v \in Viewer, CloseDialog(v)
  PROVE  FormsIndInv'
<1>1. FormsTypeOK /\ \A w \in Viewer : FormGood(w) /\ DialogGood(w)
  BY ByPage
<1>2. FormsTypeOK'
  BY <1>1 DEF FormsTypeOK, CloseDialog
<1>3. ASSUME NEW w \in Viewer PROVE FormGood(w)'
  BY <1>1 DEF CloseDialog, FormGood
<1>4. ASSUME NEW w \in Viewer PROVE DialogGood(w)'
  BY <1>1 DEF FormsTypeOK, CloseDialog, DialogGood
<1> QED
  BY <1>2, <1>3, <1>4, ByPageNext

-----------------------------------------------------------------------------
(* Every page shows what the server has, and asks nothing.                 *)
LEMMA InitHolds == FormsInit => FormsIndInv
<1> SUFFICES ASSUME FormsInit PROVE FormsIndInv
  OBVIOUS
<1>1. FormsTypeOK
  BY DEF FormsInit, FormsTypeOK, Fields, UserStatus
<1>2. ASSUME NEW w \in Viewer PROVE FormGood(w) /\ DialogGood(w)
  BY DEF FormsInit, FormGood, DialogGood
<1> QED
  BY <1>1, <1>2, ByPage

(* Every step keeps the invariant.                                         *)
LEMMA StepKeeps == FormsIndInv /\ [FormsNext]_formsVars => FormsIndInv'
<1> SUFFICES ASSUME FormsIndInv, [FormsNext]_formsVars PROVE FormsIndInv'
  OBVIOUS
<1>1. CASE UNCHANGED formsVars
  <2>1. FormsTypeOK /\ \A w \in Viewer : FormGood(w) /\ DialogGood(w)
    BY ByPage
  <2> QED
    BY <1>1, <2>1, ByPageNext DEF formsVars, FormsTypeOK, FormGood, DialogGood
<1>2. CASE FormsNext
  BY <1>2, FetchKeeps, CancelKeeps, SaveKeeps, EditKeeps, TransitionKeeps,
     OpenKeeps, ConfirmKeeps, CloseKeeps DEF FormsNext
<1> QED
  BY <1>1, <1>2

(* Whatever the administrators do on however many pages, a form takes back  *)
(* no change that its page has fetched, and a dialog asks for a transition  *)
(* the status allows unless the status moved behind it.                    *)
THEOREM Invariance == FormsSpec => []FormsIndInv
BY InitHolds, StepKeeps, PTL DEF FormsSpec

(* A status leaves the transitions the pages offer only through a page that *)
(* acts on an older status.                                                *)
THEOREM OfferedOrOlder == FormsSpec => MovesAsOffered
<1> DEFINE Offered ==
      status' # status =>
        \/ status' \in AvailableTransitions(status)
        \/ \E w \in Viewer :
             \/ dialog'[w] # dialog[w] /\ moved[w]
             \/ dialog' = dialog /\ cached[w].status # status
<1>1. FormsIndInv /\ [FormsNext]_formsVars => [Offered]_formsVars
  <2> SUFFICES ASSUME FormsIndInv, FormsNext, status' # status PROVE Offered
    OBVIOUS
  <2>1. FormsTypeOK /\ \A w \in Viewer : DialogGood(w)
    BY ByPage
  <2>2. PICK w \in Viewer : Transition(w) \/ Confirm(w)
    BY DEF FormsNext, Fetch, CancelEdit, SaveForm, Edit, OpenDialog,
           CloseDialog
  <2>3. CASE Transition(w)
    BY <2>3 DEF Transition, SetStatus
  <2>4. CASE Confirm(w)
    BY <2>1, <2>4 DEF FormsTypeOK, Confirm, DialogGood
  <2> QED
    BY <2>2, <2>3, <2>4
<1> QED
  BY <1>1, Invariance, PTL DEF FormsSpec, MovesAsOffered

-----------------------------------------------------------------------------
USE ConsoleAssumption

-----------------------------------------------------------------------------
(* The console: its invariant, tab by tab.                                 *)

ClickState == {"idle", "sent", "waiting"}
Place == {"loading", "console", "login", "reauth", "form"}

CookiesGood ==
  /\ now \in Moments
  /\ authAt \in Moments \cup {Nothing}
  /\ csrf \in Cookie /\ loginCsrf \in Cookie
  /\ csrf.at <= now /\ (SignedIn => authAt <= now)

TabTyped(t) ==
  /\ place[t] \in Place
  /\ ask[t] \in Click \cup {Nothing}
  /\ click[t] \in [Click -> ClickState]
  /\ lost[t] \in SUBSET Click
  /\ disturbed[t] \in BOOLEAN

(* The page's token, and its mutations.                                    *)
TokenKept(t) ==
  place[t] = "console" /\ ~disturbed[t] =>
    csrf.holder = t /\ (SignedIn => authAt <= csrf.at)

ClicksKept(t) ==
  /\ place[t] # "console" => \A m \in Click : click[t][m] = "idle"
  /\ ask[t] # Nothing => click[t][ask[t]] = "waiting"
  /\ \A m \in Click : click[t][m] = "waiting" => m = ask[t] \/ m \in lost[t]

TablesAreFunctions ==
  /\ place = [t \in Tab |-> place[t]]
  /\ ask = [t \in Tab |-> ask[t]]
  /\ click = [t \in Tab |-> click[t]]
  /\ lost = [t \in Tab |-> lost[t]]
  /\ disturbed = [t \in Tab |-> disturbed[t]]

(* A token given after the sign-in outlives the sign-in's window.          *)
LEMMA TokenOutlives ==
  CookiesGood /\ (\A t \in Tab : TokenKept(t)) => TokenOutlivesWindow
<1> SUFFICES ASSUME CookiesGood, \A t \in Tab : TokenKept(t), NEW t \in Tab,
                    place[t] = "console", ~disturbed[t], RecentlySignedIn
             PROVE  Accepts(csrf, t)
  BY DEF TokenOutlivesWindow
<1>1. /\ csrf.holder = t /\ authAt <= csrf.at
      /\ now <= authAt + RecentWindow
      /\ now \in Nat /\ authAt \in Nat /\ csrf.at \in Nat
  BY DEF TokenKept, RecentlySignedIn, SignedIn, CookiesGood, Cookie, Moments
<1> QED BY <1>1 DEF Accepts

TabByTab ==
  /\ CookiesGood
  /\ TablesAreFunctions
  /\ \A t \in Tab : TabTyped(t) /\ TokenKept(t) /\ ClicksKept(t)

LEMMA ByTab == ConsoleIndInv <=> TabByTab
<1>1. ConsoleTypeOK /\ csrf.at <= now /\ (SignedIn => authAt <= now) <=>
        CookiesGood /\ TablesAreFunctions /\ \A t \in Tab : TabTyped(t)
  BY DEF ConsoleTypeOK, CookiesGood, TablesAreFunctions, TabTyped, Place, ClickState
<1> QED BY <1>1, TokenOutlives DEF ConsoleIndInv, TabByTab, TokenKept, ClicksKept

-----------------------------------------------------------------------------
(* A navigation leaves nothing of the page; the other tabs are untouched.  *)
LEMMA Navigated ==
  ASSUME TablesAreFunctions, \A s \in Tab : TabTyped(s),
         NEW t \in Tab, NEW to \in Place, Navigate(t, to)
  PROVE  /\ (/\ place = [s \in Tab |-> place[s]]
             /\ ask = [s \in Tab |-> ask[s]]
             /\ click = [s \in Tab |-> click[s]]
             /\ lost = [s \in Tab |-> lost[s]])'
         /\ place'[t] = to /\ ask'[t] = Nothing /\ lost'[t] = {}
         /\ click'[t] = [m \in Click |-> "idle"]
         /\ \A s \in Tab : s # t =>
              /\ place'[s] = place[s] /\ ask'[s] = ask[s]
              /\ click'[s] = click[s] /\ lost'[s] = lost[s]
<1>1. /\ place' = [place EXCEPT ![t] = to]
      /\ ask' = [ask EXCEPT ![t] = Nothing]
      /\ click' = [click EXCEPT ![t] = [m \in Click |-> "idle"]]
      /\ lost' = [lost EXCEPT ![t] = {}]
  BY DEF Navigate
<1>2. DOMAIN place = Tab /\ DOMAIN ask = Tab /\ DOMAIN click = Tab /\ DOMAIN lost = Tab
  BY DEF TablesAreFunctions
<1> QED BY <1>1, <1>2 DEF TablesAreFunctions

(* So the parts that are about the page itself are kept.                   *)
LEMMA NavigationKeepsClicks ==
  ASSUME TabByTab, NEW t \in Tab, NEW to \in Place, Navigate(t, to),
         disturbed' \in [Tab -> BOOLEAN]
  PROVE  /\ TablesAreFunctions'
         /\ \A s \in Tab : TabTyped(s)' /\ ClicksKept(s)'
         /\ place'[t] = to
         /\ \A s \in Tab : s # t => place'[s] = place[s]
<1>1. /\ (/\ place = [s \in Tab |-> place[s]]
          /\ ask = [s \in Tab |-> ask[s]]
          /\ click = [s \in Tab |-> click[s]]
          /\ lost = [s \in Tab |-> lost[s]])'
      /\ place'[t] = to /\ ask'[t] = Nothing /\ lost'[t] = {}
      /\ click'[t] = [m \in Click |-> "idle"]
      /\ \A s \in Tab : s # t =>
           /\ place'[s] = place[s] /\ ask'[s] = ask[s]
           /\ click'[s] = click[s] /\ lost'[s] = lost[s]
  BY Navigated DEF TabByTab
<1>2. TablesAreFunctions'
  BY <1>1 DEF TablesAreFunctions
<1>3. ASSUME NEW s \in Tab, s # t
      PROVE  TabTyped(s)' /\ ClicksKept(s)'
  <2>1. TabTyped(s) /\ ClicksKept(s)
    BY DEF TabByTab
  <2>2. /\ place'[s] = place[s] /\ ask'[s] = ask[s]
        /\ click'[s] = click[s] /\ lost'[s] = lost[s]
        /\ disturbed'[s] \in BOOLEAN
    BY <1>1, <1>3
  <2> QED BY <2>1, <2>2 DEF TabTyped, ClicksKept
<1>4. TabTyped(t)' /\ ClicksKept(t)'
  BY <1>1 DEF TabTyped, ClicksKept, ClickState
<1> QED BY <1>1, <1>2, <1>3, <1>4

(* One tab takes the cookie or the session: all others are disturbed.      *)
LEMMA DisturbsOthers ==
  ASSUME NEW t \in Tab, Disturb(t)
  PROVE  /\ disturbed' \in [Tab -> BOOLEAN]
         /\ \A s \in Tab : s # t => disturbed'[s]
BY DEF Disturb

(* A cookie issued now to anyone.                                          *)
LEMMA IssuedNow ==
  ASSUME CookiesGood, NEW h \in Tab \cup {Nothing}
  PROVE  /\ Issued(h) \in Cookie /\ Issued(h).at = now /\ Issued(h).holder = h
         /\ now \in Nat
         /\ SignedIn => authAt \in Nat /\ authAt <= now
BY DEF CookiesGood, Issued, Cookie, Moments, SignedIn

(* Navigations that take the cookie (LoadConsole, OpenLogin, OpenLinkPage): *)
(* only the tab that loads the console keeps what it was given.            *)
LEMMA TakesCookie ==
  ASSUME TabByTab, NEW t \in Tab, NEW to \in Place,
         NEW h \in Tab \cup {Nothing},
         Navigate(t, to), csrf' = Issued(h), Disturb(t),
         to = "console" => h = t,
         loginCsrf' \in Cookie,
         now' = now, authAt' = authAt
  PROVE  TabByTab'
<1>1. /\ disturbed' \in [Tab -> BOOLEAN]
      /\ \A s \in Tab : s # t => disturbed'[s]
  BY DisturbsOthers
<1>2. /\ TablesAreFunctions'
      /\ \A s \in Tab : TabTyped(s)' /\ ClicksKept(s)'
      /\ place'[t] = to
  BY <1>1, NavigationKeepsClicks
<1>3. /\ csrf' \in Cookie /\ csrf'.at = now /\ csrf'.holder = h
      /\ now \in Nat /\ (SignedIn => authAt \in Nat /\ authAt <= now)
  BY IssuedNow DEF TabByTab
<1>4. CookiesGood'
  BY <1>3 DEF TabByTab, CookiesGood, SignedIn
<1>5. \A s \in Tab : TokenKept(s)'
  BY <1>1, <1>2, <1>3 DEF TokenKept, SignedIn
<1> QED BY <1>2, <1>4, <1>5 DEF TabByTab

(* Navigations that leave the cookie alone, and do not enter the console.  *)
LEMMA LeavesConsole ==
  ASSUME TabByTab, NEW t \in Tab, NEW to \in Place \ {"console"},
         Navigate(t, to), csrf' = csrf, disturbed' = disturbed,
         loginCsrf' \in Cookie, now' = now, authAt' \in {authAt, Nothing}
  PROVE  TabByTab'
<1>1. disturbed' \in [Tab -> BOOLEAN]
  BY DEF TabByTab, TablesAreFunctions, TabTyped
<1>2. /\ TablesAreFunctions'
      /\ \A s \in Tab : TabTyped(s)' /\ ClicksKept(s)'
      /\ place'[t] = to
      /\ \A s \in Tab : s # t => place'[s] = place[s]
  BY <1>1, NavigationKeepsClicks
<1>3. CookiesGood'
  BY DEF TabByTab, CookiesGood, SignedIn
<1>4. \A s \in Tab : TokenKept(s)'
  BY <1>2 DEF TabByTab, TokenKept, SignedIn
<1> QED BY <1>2, <1>3, <1>4 DEF TabByTab

LEMMA PagesKeep ==
  ASSUME TabByTab, NEW t \in Tab,
         LoadConsole(t) \/ OpenLogin(t) \/ OpenLinkPage(t) \/ Reload(t)
  PROVE  TabByTab'
<1>1. /\ loginCsrf \in Cookie
      /\ Issued(t) \in Cookie
      /\ {"console", "login", "loading", "form"} \subseteq Place
      /\ {"login", "loading", "form"} \subseteq Place \ {"console"}
  BY IssuedNow DEF TabByTab, CookiesGood, Place
<1>2. CASE LoadConsole(t)
  BY <1>1, <1>2, TakesCookie, LeavesConsole DEF LoadConsole
<1>3. CASE OpenLogin(t)
  BY <1>1, <1>3, TakesCookie, LeavesConsole DEF OpenLogin
<1>4. CASE OpenLinkPage(t)
  BY <1>1, <1>4, TakesCookie, LeavesConsole DEF OpenLinkPage
<1>5. CASE Reload(t)
  BY <1>1, <1>5, LeavesConsole DEF Reload
<1> QED BY <1>2, <1>3, <1>4, <1>5

LEMMA SubmitLoginKeeps ==
  ASSUME TabByTab, NEW t \in Tab, SubmitLogin(t)
  PROVE  TabByTab'
<1>1. /\ authAt' = now /\ loginCsrf' = Issued(Nothing)
      /\ Navigate(t, "loading") /\ Disturb(t)
      /\ now' = now /\ csrf' = csrf /\ "loading" \in Place
  BY DEF SubmitLogin, Place
<1>2. /\ disturbed' \in [Tab -> BOOLEAN]
      /\ \A s \in Tab : s # t => disturbed'[s]
  BY <1>1, DisturbsOthers
<1>3. /\ TablesAreFunctions'
      /\ \A s \in Tab : TabTyped(s)' /\ ClicksKept(s)'
      /\ place'[t] = "loading"
  BY <1>1, <1>2, NavigationKeepsClicks
<1>4. CookiesGood'
  <2>1. loginCsrf' \in Cookie /\ now \in Nat /\ now <= now
    BY <1>1, IssuedNow DEF TabByTab
  <2> QED BY <1>1, <2>1 DEF TabByTab, CookiesGood, SignedIn
<1>5. \A s \in Tab : TokenKept(s)'
  BY <1>2, <1>3 DEF TokenKept
<1> QED BY <1>3, <1>4, <1>5 DEF TabByTab

LEMMA LeavingKeeps ==
  ASSUME TabByTab, NEW t \in Tab, PerformLogout(t) \/ SignInAgain(t)
  PROVE  TabByTab'
<1>1. {"login", "reauth"} \subseteq Place \ {"console"} /\ loginCsrf \in Cookie
  BY DEF Place, TabByTab, CookiesGood
<1> QED BY <1>1, LeavesConsole DEF PerformLogout, SignInAgain

(* What changes only the mutations and the dialog of one tab.              *)
LEMMA ClicksChange ==
  ASSUME TabByTab, NEW t \in Tab,
         place' = place, disturbed' = disturbed, csrf' = csrf,
         loginCsrf' = loginCsrf, now' = now, authAt' = authAt,
         NEW a \in Click \cup {Nothing}, ask' = [ask EXCEPT ![t] = a],
         NEW c \in [Click -> ClickState], click' = [click EXCEPT ![t] = c],
         NEW l \in SUBSET Click, lost' = [lost EXCEPT ![t] = l],
         place[t] # "console" => \A m \in Click : c[m] = "idle",
         a # Nothing => c[a] = "waiting",
         \A m \in Click : c[m] = "waiting" => m = a \/ m \in l
  PROVE  TabByTab'
<1>1. TablesAreFunctions'
  BY DEF TabByTab, TablesAreFunctions
<1>2. \A s \in Tab :
        /\ ask'[s] = IF s = t THEN a ELSE ask[s]
        /\ click'[s] = IF s = t THEN c ELSE click[s]
        /\ lost'[s] = IF s = t THEN l ELSE lost[s]
  BY DEF TabByTab, TablesAreFunctions
<1>3. \A s \in Tab : TabTyped(s)' /\ ClicksKept(s)' /\ TokenKept(s)'
  <2> TAKE s \in Tab
  <2>1. TabTyped(s) /\ ClicksKept(s) /\ TokenKept(s)
    BY DEF TabByTab
  <2>2. TokenKept(s)'
    BY <2>1 DEF TokenKept, SignedIn
  <2>3. CASE s = t
    BY <1>2, <2>1, <2>2, <2>3 DEF TabTyped, ClicksKept
  <2>4. CASE s # t
    BY <1>2, <2>1, <2>2, <2>4 DEF TabTyped, ClicksKept
  <2> QED BY <2>3, <2>4
<1>4. CookiesGood'
  BY DEF TabByTab, CookiesGood, SignedIn
<1> QED BY <1>1, <1>3, <1>4 DEF TabByTab

LEMMA MutateKeeps ==
  ASSUME TabByTab, NEW t \in Tab, NEW m \in Click, Mutate(t, m)
  PROVE  TabByTab'
<1> DEFINE c == [click[t] EXCEPT ![m] = "sent"]
<1>1. /\ place[t] = "console" /\ ask[t] = Nothing
      /\ click' = [click EXCEPT ![t] = c]
      /\ ask' = [ask EXCEPT ![t] = ask[t]] /\ lost' = [lost EXCEPT ![t] = lost[t]]
      /\ TabTyped(t) /\ ClicksKept(t)
  BY DEF Mutate, TabByTab, TablesAreFunctions
<1>2. /\ c \in [Click -> ClickState]
      /\ \A n \in Click : c[n] = "waiting" => n = ask[t] \/ n \in lost[t]
      /\ ask[t] \in Click \cup {Nothing} /\ lost[t] \in SUBSET Click
  BY <1>1 DEF TabTyped, ClicksKept, ClickState
<1>3. /\ place' = place /\ disturbed' = disturbed /\ csrf' = csrf
      /\ loginCsrf' = loginCsrf /\ now' = now /\ authAt' = authAt
  BY DEF Mutate
<1> HIDE DEF c
<1> QED BY <1>1, <1>2, <1>3, ClicksChange

LEMMA AnswerKeeps ==
  ASSUME TabByTab, NEW t \in Tab, NEW m \in Click, Answer(t, m)
  PROVE  TabByTab'
<1>0. /\ TabTyped(t) /\ ClicksKept(t) /\ click[t][m] = "sent"
      /\ place[t] = "console"
      /\ now' = now /\ authAt' = authAt /\ csrf' = csrf
      /\ loginCsrf' = loginCsrf /\ disturbed' = disturbed
  BY DEF Answer, TabByTab, ClicksKept
<1>1. CASE Navigate(t, "login")
  BY <1>0, <1>1, LeavesConsole DEF TabByTab, CookiesGood, Place
<1>2. CASE RequestReauth(t, m)
  <2> DEFINE c == [click[t] EXCEPT ![m] = "waiting"]
             l == lost[t] \cup ({ask[t]} \ {Nothing})
  <2>1. /\ click' = [click EXCEPT ![t] = c]
        /\ ask' = [ask EXCEPT ![t] = m] /\ lost' = [lost EXCEPT ![t] = l]
        /\ place' = place
    BY <1>2 DEF RequestReauth
  <2>2. /\ c \in [Click -> ClickState] /\ l \in SUBSET Click
        /\ c[m] = "waiting"
        /\ \A n \in Click : c[n] = "waiting" => n = m \/ n \in l
    BY <1>0 DEF TabTyped, ClicksKept, ClickState
  <2> HIDE DEF c, l
  <2> QED BY <1>0, <2>1, <2>2, ClicksChange
<1>3. CASE click' = [click EXCEPT ![t][m] = "idle"] /\ UNCHANGED <<place, ask, lost>>
  <2> DEFINE c == [click[t] EXCEPT ![m] = "idle"]
  <2>1. /\ click' = [click EXCEPT ![t] = c]
        /\ ask' = [ask EXCEPT ![t] = ask[t]] /\ lost' = [lost EXCEPT ![t] = lost[t]]
        /\ place' = place
    BY <1>3 DEF TabByTab, TablesAreFunctions
  <2>2. /\ c \in [Click -> ClickState]
        /\ \A n \in Click : c[n] = "waiting" => n = ask[t] \/ n \in lost[t]
        /\ ask[t] \in Click \cup {Nothing} /\ lost[t] \in SUBSET Click
        /\ ask[t] # Nothing => c[ask[t]] = "waiting"
    BY <1>0 DEF TabTyped, ClicksKept, ClickState
  <2> HIDE DEF c
  <2> QED BY <1>0, <2>1, <2>2, ClicksChange
<1> QED BY <1>1, <1>2, <1>3 DEF Answer

LEMMA CancelReauthKeeps ==
  ASSUME TabByTab, NEW t \in Tab, CancelReauth(t)
  PROVE  TabByTab'
<1> DEFINE c == [click[t] EXCEPT ![ask[t]] = "idle"]
<1>1. /\ ask[t] # Nothing /\ click' = [click EXCEPT ![t] = c]
      /\ ask' = [ask EXCEPT ![t] = Nothing] /\ lost' = [lost EXCEPT ![t] = lost[t]]
      /\ TabTyped(t) /\ ClicksKept(t)
  BY DEF CancelReauth, TabByTab, TablesAreFunctions
<1>2. /\ c \in [Click -> ClickState]
      /\ \A n \in Click : c[n] = "waiting" => n \in lost[t]
      /\ place[t] = "console"
      /\ lost[t] \in SUBSET Click
  BY <1>1 DEF TabTyped, ClicksKept, ClickState
<1> HIDE DEF c
<1> QED BY <1>1, <1>2, ClicksChange DEF CancelReauth

LEMMA AroundKeeps ==
  ASSUME TabByTab, SessionEnds \/ ConsoleTick \/ UNCHANGED consoleVars
  PROVE  TabByTab'
<1>1. /\ place' = place /\ ask' = ask /\ click' = click /\ lost' = lost
      /\ disturbed' = disturbed /\ csrf' = csrf /\ loginCsrf' = loginCsrf
      /\ authAt' \in {authAt, Nothing}
      /\ now' = now \/ (now' = now + 1 /\ now < MaxConsoleClock)
  BY DEF SessionEnds, ConsoleTick, consoleVars, Stay
<1>2. CookiesGood'
  BY <1>1 DEF TabByTab, CookiesGood, SignedIn, Moments, Cookie
<1>3. TablesAreFunctions'
  BY <1>1 DEF TabByTab, TablesAreFunctions
<1>4. \A t \in Tab : TabTyped(t)' /\ TokenKept(t)' /\ ClicksKept(t)'
  BY <1>1 DEF TabByTab, TabTyped, TokenKept, ClicksKept, SignedIn
<1> QED BY <1>2, <1>3, <1>4 DEF TabByTab

LEMMA ConsoleStart == ConsoleInit => TabByTab
<1> SUFFICES ASSUME ConsoleInit PROVE TabByTab
  OBVIOUS
<1>1. CookiesGood
  BY DEF ConsoleInit, CookiesGood, Cookie, Moments, SignedIn
<1>2. TablesAreFunctions
  BY DEF ConsoleInit, TablesAreFunctions
<1>3. \A t \in Tab : TabTyped(t) /\ TokenKept(t) /\ ClicksKept(t)
  BY DEF ConsoleInit, TabTyped, TokenKept, ClicksKept, Place, ClickState
<1> QED BY <1>1, <1>2, <1>3 DEF TabByTab

LEMMA ConsoleStep == TabByTab /\ [ConsoleNext]_consoleVars => TabByTab'
BY PagesKeep, SubmitLoginKeeps, LeavingKeeps, MutateKeeps, AnswerKeeps,
   CancelReauthKeeps, AroundKeeps DEF ConsoleNext

(* Whatever the tabs of a browser do side by side, a tab that no other tab *)
(* disturbed has the cookie's token for as long as its sign-in lets it     *)
(* mutate, and a mutation that waits is the dialog's or is known to be     *)
(* lost (recent-auth.tsx, csrf.guard.ts).                                  *)
THEOREM ConsoleInvariance == ConsoleSpec => []ConsoleIndInv
<1> QED BY ConsoleStart, ConsoleStep, ByTab, PTL DEF ConsoleSpec

-----------------------------------------------------------------------------
USE PaginationAssumption

-----------------------------------------------------------------------------
(* Pagination: the rows of a page.                                         *)

(* Ids are numbers.                                                        *)
LEMMA IdsAreNumbers == \A i \in Id : i \in Nat /\ i <= MaxId /\ MaxId - i \in Nat
BY DEF Id

(* A set of ids is finite, and so is a part of it.                         *)
LEMMA IdsFinite ==
  ASSUME NEW S, S \subseteq Id
  PROVE  IsFiniteSet(S) /\ Cardinality(S) \in Nat
<1>1. IsFiniteSet(Id)
  BY FS_Interval DEF Id
<1>2. S \in SUBSET Id
  OBVIOUS
<1>3. IsFiniteSet(S)
  BY <1>1, <1>2, FS_Subset
<1> QED
  BY <1>3, FS_CardinalityType

(* A set of natural numbers has a least one.                               *)
LEMMA LeastNatural ==
  ASSUME NEW S \in SUBSET Nat, S # {}
  PROVE  \E k \in S : \A i \in S : k <= i
<1> DEFINE Less == {ss \in Nat \X Nat : ss[1] < ss[2]}
<1>1. IsWellFoundedOn(Less, Nat)
  BY NatLessThanWellFounded, Zenon DEF OpToRel
<1>2. \E k \in S : \A i \in S : ~ (<<i, k>> \in Less)
  <2> HIDE DEF Less
  <2> QED
    BY <1>1, WFMin
<1>3. PICK k \in S : \A i \in S : ~ (<<i, k>> \in Less)
  BY <1>2
<1>4. \A i \in S : ~ (i < k)
  BY <1>3
<1> QED
  BY <1>4

(* The least of some ids.                                                  *)
LEMMA LeastId ==
  ASSUME NEW S, S \subseteq Id, S # {}
  PROVE  Min(S) \in S /\ \A i \in S : Min(S) <= i
<1>1. S \in SUBSET Nat
  BY DEF Id
<1>2. PICK k \in S : \A i \in S : k <= i
  BY <1>1, LeastNatural
<1> QED
  BY <1>2 DEF Min

(* The largest of some ids.                                                *)
LEMMA LargestId ==
  ASSUME NEW S, S \subseteq Id, S # {}
  PROVE  \E k \in S : \A i \in S : i <= k
<1> DEFINE Mirror == {MaxId - i : i \in S}
<1>1. Mirror \in SUBSET Nat /\ Mirror # {}
  BY IdsAreNumbers
<1>2. PICK m \in Mirror : \A n \in Mirror : m <= n
  <2> HIDE DEF Mirror
  <2> QED
    BY <1>1, LeastNatural
<1>3. PICK k \in S : m = MaxId - k
  OBVIOUS
<1>4. ASSUME NEW i \in S
      PROVE  i <= k
  <2>1. MaxId - i \in Mirror
    OBVIOUS
  <2>2. MaxId - k <= MaxId - i
    BY <1>2, <1>3, <2>1
  <2>3. i \in Int /\ k \in Int
    BY DEF Id
  <2> QED
    BY <2>2, <2>3
<1> QED
  BY <1>4

(* The first rows hold every row above one of them.                        *)
LEMMA FirstIsUpward ==
  ASSUME NEW S, S \subseteq Id, NEW n \in Nat,
         NEW i \in First(S, n), NEW j \in S, j > i
  PROVE  j \in First(S, n)
<1> DEFINE Above(x) == {k \in S : k > x}
<1>0. i \in S /\ S \subseteq Nat
  BY IdsAreNumbers DEF First
<1>1. Above(j) \subseteq Above(i) /\ Above(i) \subseteq Id
  <2>1. ASSUME NEW k \in S, k > j
        PROVE  k > i
    <3>1. k \in Nat /\ j \in Nat /\ i \in Nat
      BY <1>0
    <3> QED
      BY <2>1, <3>1
  <2> QED
    BY <2>1
<1>2. Cardinality(Above(j)) <= Cardinality(Above(i))
  BY <1>1, IdsFinite, FS_Subset
<1>3. Cardinality(Above(i)) < n
  BY DEF First
<1>4. Cardinality(Above(j)) \in Nat /\ Cardinality(Above(i)) \in Nat
  BY <1>1, IdsFinite
<1>5. Cardinality(Above(j)) < n
  <2> HIDE DEF Above
  <2> QED
    BY <1>2, <1>3, <1>4
<1> QED
  BY <1>5 DEF First

(* There is a first row.                                                   *)
LEMMA FirstIsSome ==
  ASSUME NEW S, S \subseteq Id, S # {}, NEW n \in Nat \ {0}
  PROVE  First(S, n) # {}
<1>1. PICK k \in S : \A i \in S : i <= k
  BY LargestId
<1>2. {j \in S : j > k} = {}
  BY <1>1, IdsAreNumbers
<1>3. Cardinality({j \in S : j > k}) < n
  BY <1>2, FS_EmptySet
<1> QED
  BY <1>3 DEF First

(* Rows that are no more than asked for are all there are.                 *)
LEMMA FirstIsAll ==
  ASSUME NEW S, S \subseteq Id, NEW n \in Nat,
         Cardinality(First(S, n)) < n
  PROVE  First(S, n) = S
<1>0. First(S, n) \subseteq S
  BY DEF First
<1>1. SUFFICES ASSUME S \ First(S, n) # {}
               PROVE  FALSE
  BY <1>0
<1>2. PICK k \in S \ First(S, n) : \A i \in S \ First(S, n) : i <= k
  BY <1>1, LargestId
<1> DEFINE Above == {j \in S : j > k}
<1>3. Above \subseteq First(S, n)
  BY <1>2, IdsAreNumbers
<1>4. Cardinality(Above) <= Cardinality(First(S, n))
  BY <1>0, <1>3, IdsFinite, FS_Subset
<1>5. Cardinality(Above) \in Nat /\ Cardinality(First(S, n)) \in Nat
  BY <1>0, IdsFinite
<1>6. Cardinality(Above) < n
  <2> HIDE DEF Above
  <2> QED
    BY <1>4, <1>5
<1> QED
  BY <1>2, <1>6 DEF First

(* No more rows than asked for are all first ones.                         *)
LEMMA AllAreFirst ==
  ASSUME NEW S, S \subseteq Id, NEW n \in Nat, Cardinality(S) <= n
  PROVE  First(S, n) = S
<1>1. ASSUME NEW i \in S
      PROVE  Cardinality({j \in S : j > i}) < n
  <2> DEFINE Above == {j \in S : j > i}
  <2>1. Above \in SUBSET S /\ Above # S
    BY IdsAreNumbers
  <2>2. Cardinality(Above) \in Nat /\ Cardinality(S) \in Nat /\ IsFiniteSet(S)
    BY IdsFinite
  <2>3. Cardinality(Above) <= Cardinality(S) /\ Cardinality(Above) # Cardinality(S)
    <3> HIDE DEF Above
    <3> QED
      BY <2>1, <2>2, FS_Subset
  <2> QED
    <3> HIDE DEF Above
    <3>1. Cardinality(Above) < n
      BY <2>2, <2>3
    <3> QED
      BY <3>1 DEF Above
<1> QED
  BY <1>1 DEF First

-----------------------------------------------------------------------------
(* What the server answers: the rows below the cursor that are left out of *)
(* a page are below the cursor that it gives.                              *)
LEMMA PageOf ==
  ASSUME rows \subseteq Id, NEW cursor \in Id \cup {None}
  PROVE  LET page == ToCursorPage(cursor) IN
         /\ page \in Page
         /\ page.items \subseteq Below(cursor)
         /\ page.next # None => \A i \in page.items : page.next <= i
         /\ page.next # None => page.next \in page.items
         /\ \A i \in Below(cursor) : i \in page.items \/ i < page.next
<1> DEFINE all == Below(cursor)
           found == First(all, Limit + 1)
           items == First(found, Limit)
           page == ToCursorPage(cursor)
<1>1. all \subseteq Id /\ found \subseteq all /\ items \subseteq found
  BY DEF Below, First
<1>2. /\ page.items = items
      /\ page.next = IF Cardinality(found) > Limit THEN Min(items) ELSE None
      /\ page = [items |-> page.items, next |-> page.next]
  BY DEF ToCursorPage
<1>3. Limit \in Nat /\ Limit + 1 \in Nat
  OBVIOUS
<1>4. CASE Cardinality(found) > Limit
  <2>1. found # {}
    BY <1>4, FS_EmptySet
  <2>2. items # {}
    <3> HIDE DEF found, all
    <3> QED
      BY <1>1, <2>1, FirstIsSome
  <2>3. Min(items) \in items /\ \A i \in items : Min(items) <= i
    <3> HIDE DEF items, found, all
    <3> QED
      BY <1>1, <2>2, LeastId
  <2>4. ASSUME NEW i \in all, ~ (i < Min(items))
        PROVE  i \in items
    <3>0. i \in Nat /\ Min(items) \in Nat
      <4> HIDE DEF items, found, all
      <4> QED
        BY <1>1, <2>3, <2>4, IdsAreNumbers
    <3>1. CASE i = Min(items)
      BY <2>3, <3>1
    <3>2. CASE i > Min(items)
      <4>1. Min(items) \in found
        BY <1>1, <2>3
      <4>2. i \in found
        <5> HIDE DEF all, items
        <5> QED
          BY <1>1, <1>3, <3>2, <4>1, FirstIsUpward
      <4> QED
        <5> HIDE DEF all, found
        <5> QED
          BY <1>1, <1>3, <2>3, <3>2, <4>2, FirstIsUpward
    <3> QED
      <4> HIDE DEF items, found, all
      <4> QED
        BY <2>4, <3>0, <3>1, <3>2
  <2> HIDE DEF items, found, all, page
  <2>5. page.next = Min(items) /\ page.next \in Id
    BY <1>1, <1>2, <1>4, <2>3
  <2>6. page \in Page
    BY <1>1, <1>2, <2>5 DEF Page
  <2> QED
    BY <1>1, <1>2, <2>3, <2>4, <2>5, <2>6 DEF all, page
<1>5. CASE ~ (Cardinality(found) > Limit)
  <2> HIDE DEF items, all, page
  <2>0. Cardinality(found) \in Nat
    <3> HIDE DEF found
    <3> QED
      BY <1>1, IdsFinite
  <2>1. found = all
    <3>1. Cardinality(First(all, Limit + 1)) < Limit + 1
      <4> HIDE DEF found
      <4>1. Cardinality(found) < Limit + 1
        BY <1>3, <1>5, <2>0
      <4> QED
        BY <4>1 DEF found
    <3> QED
      BY <1>1, <1>3, <3>1, FirstIsAll
  <2> HIDE DEF found
  <2>2. items = found
    BY <1>1, <1>3, <1>5, <2>0, AllAreFirst DEF items
  <2>3. page.next = None
    BY <1>2, <1>5
  <2>4. page \in Page
    BY <1>1, <1>2, <2>3 DEF Page
  <2> QED
    BY <1>1, <1>2, <2>1, <2>2, <2>3, <2>4 DEF all, page
<1> QED
  BY <1>4, <1>5

-----------------------------------------------------------------------------
(* Walks: what each of the two keeps, whatever happens to the list.        *)

(* The rows of a page are above those of the pages after it.               *)
Ordered(walk) ==
  \A m, n \in 1..Len(walk.list) : m < n =>
    \A i \in walk.list[m].items, j \in walk.list[n].items : i > j

(* A row that was there all the time is on a page or still to come.        *)
Complete(walk) ==
  walk.list # <<>> =>
    \A i \in walk.steady :
      \/ \E n \in 1..Len(walk.list) : i \in walk.list[n].items
      \/ i < Last(walk).next

(* The next page is asked for below the rows already there.                *)
Downward(walk) ==
  walk.list # <<>> /\ Last(walk).next # None =>
    \A n \in 1..Len(walk.list) :
      \A i \in walk.list[n].items : Last(walk).next <= i

WalkGood(walk) ==
  /\ walk \in Walk /\ walk.steady \subseteq rows
  /\ Ordered(walk) /\ Complete(walk) /\ Downward(walk)

(* The invariant is its types, the two walks and what is fetched.          *)
LEMMA ByWalk ==
  PagesConsistent <=>
    PageTypeOK /\ WalkGood(pages) /\ WalkGood(fresh) /\ FetchesOnlyMore
BY DEF PagesConsistent, PageTypeOK, InOrder, NothingSkipped, GoesOnBelow,
       WalkGood, Ordered, Complete, Downward

(* The same of the next state.                                             *)
LEMMA ByWalkNext ==
  PagesConsistent' <=>
    PageTypeOK' /\ WalkGood(pages)' /\ WalkGood(fresh)' /\ FetchesOnlyMore'
BY ByWalk, PTL

(* A walk that has not begun is as it should be.                           *)
LEMMA NoWalkGood == WalkGood(NoWalk)
BY DEF WalkGood, NoWalk, Walk, Ordered, Complete, Downward

(* A walk that is extended stays as it should be: the page that is added   *)
(* is below the cursor, and leaves out only what is below its own.         *)
LEMMA ExtendedGood ==
  ASSUME rows \subseteq Id, NEW walk, WalkGood(walk), MorePages(walk)
  PROVE  /\ WalkGood(Extended(walk))
         /\ Extended(walk).list # <<>>
         /\ Len(Extended(walk).list) = Len(walk.list) + 1
<1> DEFINE cursor == NextCursor(walk)
           page == ToCursorPage(cursor)
           len == Len(walk.list)
           longer == Extended(walk)
<1>1. /\ walk.list \in Seq(Page) /\ len \in Nat
      /\ walk.steady \subseteq rows
      /\ \A n \in 1..len : walk.list[n] \in Page
  BY DEF WalkGood, Walk
<1>2. walk.list # <<>> => /\ len \in 1..len
                         /\ Last(walk) = walk.list[len]
                         /\ Last(walk) \in Page
                         /\ cursor = Last(walk).next
                         /\ cursor # None
  BY <1>1 DEF Last, NextCursor, MorePages
<1>3. cursor \in Id \cup {None}
  BY <1>2 DEF NextCursor, Page
<1> HIDE DEF cursor
<1>4. /\ page \in Page
      /\ page.items \subseteq Below(cursor)
      /\ page.next # None => \A i \in page.items : page.next <= i
      /\ page.next # None => page.next \in page.items
      /\ \A i \in Below(cursor) : i \in page.items \/ i < page.next
  BY <1>3, PageOf
<1>5. /\ longer.list = Append(walk.list, page)
      /\ longer.steady = IF walk.list = <<>> THEN rows ELSE walk.steady
      /\ longer = [list |-> longer.list, steady |-> longer.steady]
  BY DEF Extended, cursor
<1> HIDE DEF page, len, longer
<1>6. /\ longer.list \in Seq(Page) /\ longer.list # <<>>
      /\ Len(longer.list) = len + 1
      /\ longer.list[len + 1] = page
      /\ \A n \in 1..len : longer.list[n] = walk.list[n]
      /\ Last(longer) = page
  BY <1>1, <1>4, <1>5 DEF len, Last
<1>7. longer \in Walk /\ longer.steady \subseteq rows
  BY <1>1, <1>5, <1>6 DEF Walk
(* The rows already fetched are not below the cursor.                      *)
<1>8. \A n \in 1..len : \A i \in walk.list[n].items :
        cursor # None /\ cursor <= i /\ i \in Nat /\ cursor \in Nat
  <2>1. SUFFICES ASSUME NEW n \in 1..len, NEW i \in walk.list[n].items
                 PROVE  cursor # None /\ cursor <= i /\ i \in Nat /\ cursor \in Nat
    OBVIOUS
  <2>2. walk.list # <<>>
    BY <1>1 DEF len
  <2>3. i \in Id /\ cursor \in Id
    BY <1>1, <1>2, <1>3, <2>2 DEF Page
  <2> QED
    BY <1>2, <2>2, <2>3, IdsAreNumbers DEF WalkGood, Downward, len
<1>9. \A i \in page.items :
        /\ i \in rows /\ i \in Nat
        /\ cursor # None => i < cursor
  BY <1>4, IdsAreNumbers DEF Below
<1>10. Ordered(longer)
  <2>1. SUFFICES ASSUME NEW m \in 1..(len + 1), NEW n \in 1..(len + 1), m < n,
                        NEW i \in longer.list[m].items,
                        NEW j \in longer.list[n].items
                 PROVE  i > j
    BY <1>6 DEF Ordered
  <2>2. m \in 1..len /\ longer.list[m] = walk.list[m]
    BY <1>1, <1>6, <2>1
  <2>3. CASE n \in 1..len
    BY <1>6, <2>1, <2>2, <2>3 DEF WalkGood, Ordered, len
  <2>4. CASE n = len + 1
    <3>1. j \in page.items
      BY <1>6, <2>4
    <3>2. i \in walk.list[m].items
      BY <2>2
    <3>3. cursor # None /\ cursor <= i /\ i \in Nat /\ cursor \in Nat
      BY <1>8, <2>2, <3>2
    <3>4. j \in Nat /\ j < cursor
      BY <1>9, <3>1, <3>3, Zenon
    <3> QED
      BY <3>3, <3>4
  <2> QED
    BY <1>1, <2>1, <2>3, <2>4
<1>11. Complete(longer)
  <2>1. SUFFICES ASSUME NEW i \in longer.steady
                 PROVE  \/ \E n \in 1..(len + 1) : i \in longer.list[n].items
                        \/ i < page.next
    BY <1>6 DEF Complete
  <2>2. len + 1 \in 1..(len + 1) /\ 1..len \subseteq 1..(len + 1)
    BY <1>1
  <2>3. i \in rows
    BY <1>7
  <2>4. CASE i \in Below(cursor)
    BY <1>4, <1>6, <2>2, <2>4
  <2>5. CASE i \notin Below(cursor)
    <3>1. cursor # None /\ ~ (i < cursor)
      BY <2>3, <2>5 DEF Below
    <3>2. walk.list # <<>>
      BY <3>1 DEF cursor, NextCursor
    <3>3. i \in walk.steady /\ ~ (i < Last(walk).next)
      BY <1>2, <1>5, <3>1, <3>2
    <3>4. PICK n \in 1..len : i \in walk.list[n].items
      BY <3>2, <3>3 DEF WalkGood, Complete, len
    <3> QED
      BY <1>6, <2>2, <3>4
  <2> QED
    BY <2>4, <2>5
<1>12. Downward(longer)
  <2>1. SUFFICES ASSUME page.next # None,
                        NEW n \in 1..(len + 1), NEW i \in longer.list[n].items
                 PROVE  page.next <= i
    BY <1>6 DEF Downward
  <2>2. CASE n = len + 1
    BY <1>4, <1>6, <2>1, <2>2
  <2>3. CASE n \in 1..len
    <3>1. i \in walk.list[n].items
      BY <1>6, <2>3
    <3>2. cursor # None /\ cursor <= i /\ i \in Nat /\ cursor \in Nat
      BY <1>8, <2>3, <3>1
    <3>3. page.next \in page.items
      BY <1>4, <2>1
    <3>4. page.next \in Nat /\ page.next < cursor
      BY <1>9, <3>2, <3>3, Zenon
    <3> QED
      BY <3>2, <3>4
  <2> QED
    BY <1>1, <2>2, <2>3
<1> QED
  BY <1>6, <1>7, <1>10, <1>11, <1>12 DEF WalkGood, longer, len

-----------------------------------------------------------------------------
(* A walk that is not touched stays as it should be while no row goes.     *)
LEMMA GoodWithMore ==
  ASSUME NEW walk, WalkGood(walk), rows \subseteq rows'
  PROVE  /\ walk \in Walk /\ walk.steady \subseteq rows'
         /\ Ordered(walk) /\ Complete(walk) /\ Downward(walk)
BY DEF WalkGood

(* A walk stays as it should be when a row goes that it no longer counts.  *)
LEMMA GoodWithoutRow ==
  ASSUME NEW walk, WalkGood(walk), NEW i, rows' = rows \ {i},
         NEW less, less = [walk EXCEPT !.steady = @ \ {i}]
  PROVE  /\ less \in Walk /\ less.steady \subseteq rows'
         /\ Ordered(less) /\ Complete(less) /\ Downward(less)
         /\ less.list = walk.list
<1>1. walk \in Walk /\ walk.steady \subseteq rows
  BY DEF WalkGood
<1>2. less.list = walk.list /\ less.steady = walk.steady \ {i}
  BY <1>1 DEF Walk
<1>3. less \in Walk
  BY <1>1 DEF Walk
<1>4. Last(less) = Last(walk)
  BY <1>2 DEF Last
<1> QED
  BY <1>1, <1>2, <1>3, <1>4 DEF WalkGood, Ordered, Complete, Downward

(* The first state: nothing is fetched.                                    *)
LEMMA PagesInit == PageInit => PagesConsistent
<1> SUFFICES ASSUME PageInit PROVE PagesConsistent
  OBVIOUS
<1>1. PageTypeOK
  <2>1. newest \in 0..MaxId /\ rows = 1..newest
    BY DEF PageInit
  <2>2. rows \subseteq Id
    BY <2>1 DEF Id
  <2>3. NoWalk \in Walk
    BY DEF NoWalk, Walk
  <2>4. newest \in 0..MaxId
    BY <2>1
  <2>5. pages \in Walk /\ fresh \in Walk
    BY <2>3 DEF PageInit
  <2>6. index \in Nat \ {0}
    BY DEF PageInit
  <2>7. fetching \in {"no", "next", "all"} /\ mishap \in BOOLEAN
    BY DEF PageInit
  <2> QED
    BY <2>2, <2>4, <2>5, <2>6, <2>7 DEF PageTypeOK
<1>2. WalkGood(pages) /\ WalkGood(fresh)
  BY NoWalkGood DEF PageInit
<1>3. FetchesOnlyMore
  BY DEF PageInit, FetchesOnlyMore, MorePages, NoWalk
<1> QED
  BY <1>1, <1>2, <1>3, ByWalk

(* A step that leaves the rows alone, and the cache and the refetch as     *)
(* they should be.                                                         *)
LEMMA SameRows ==
  ASSUME PagesConsistent, UNCHANGED <<rows, newest>>,
         WalkGood(pages'), WalkGood(fresh'),
         index' \in Nat \ {0}, fetching' \in {"no", "next", "all"},
         mishap' \in BOOLEAN, FetchesOnlyMore'
  PROVE  PagesConsistent'
<1>1. PageTypeOK'
  BY DEF PagesConsistent, PageTypeOK, WalkGood
<1>2. WalkGood(pages)' /\ WalkGood(fresh)'
  BY DEF WalkGood, Ordered, Complete, Downward, Last
<1> QED
  BY <1>1, <1>2, ByWalkNext

(* What a refetch under way and a page that is asked for go on from.       *)
LEMMA PagesStep ==
  ASSUME PagesConsistent, PageNext
  PROVE  PagesConsistent'
<1>0. /\ PageTypeOK /\ WalkGood(pages) /\ WalkGood(fresh)
      /\ FetchesOnlyMore
  BY ByWalk
<1>t. /\ rows \subseteq Id /\ newest \in 0..MaxId
      /\ index \in Nat \ {0} /\ fetching \in {"no", "next", "all"}
      /\ mishap \in BOOLEAN
  BY <1>0 DEF PageTypeOK
<1>1. CASE Refetch
  <2>1. WalkGood(fresh')
    BY <1>1, NoWalkGood DEF Refetch
  <2>2. FetchesOnlyMore'
    BY <1>0, <1>1 DEF Refetch, FetchesOnlyMore, MorePages, NoWalk
  <2> QED
    BY <1>0, <1>1, <1>t, <2>1, <2>2, SameRows DEF Refetch
<1>9. CASE Invalidate
  <2>1. WalkGood(fresh') /\ WalkGood(pages')
    BY <1>0, <1>9, NoWalkGood DEF Invalidate
  <2>2. FetchesOnlyMore'
    BY <1>0, <1>9 DEF Invalidate, FetchesOnlyMore, MorePages, NoWalk
  <2>3. mishap' \in BOOLEAN
    BY <1>9 DEF Invalidate, Recall, Missing
  <2> QED
    BY <1>9, <1>t, <2>1, <2>2, <2>3, SameRows DEF Invalidate
<1>2. CASE RefetchPage
  <2> DEFINE longer == Extended(fresh)
  <2>0. mishap' \in BOOLEAN
    BY <1>2 DEF RefetchPage, Recall, Missing
  <2>1. /\ WalkGood(longer) /\ longer.list # <<>>
    BY <1>0, <1>2, <1>t, ExtendedGood DEF RefetchPage, FetchesOnlyMore
  <2>2. CASE MorePages(longer) /\ Len(longer.list) < Len(pages.list)
    <3>1. fresh' = longer /\ UNCHANGED <<pages, fetching, rows, newest, index>>
      BY <1>2, <2>2 DEF RefetchPage
    <3> HIDE DEF longer
    <3>2. FetchesOnlyMore'
      BY <1>0, <1>2, <2>2, <3>1 DEF FetchesOnlyMore, RefetchPage, MorePages, Last
    <3> QED
      BY <1>0, <1>t, <2>0, <2>1, <3>1, <3>2, SameRows
  <2>3. CASE ~ (MorePages(longer) /\ Len(longer.list) < Len(pages.list))
    <3>1. /\ pages' = longer /\ fresh' = NoWalk /\ fetching' = "no"
          /\ UNCHANGED <<rows, newest, index>>
      BY <1>2, <2>3 DEF RefetchPage
    <3> HIDE DEF longer
    <3>3. FetchesOnlyMore'
      BY <2>1, <3>1 DEF FetchesOnlyMore
    <3> QED
      BY <1>t, <2>0, <2>1, <3>1, <3>3, NoWalkGood, SameRows
  <2> QED
    BY <2>2, <2>3
<1>3. CASE FetchNextPage
  <2> DEFINE longer == Extended(pages)
  <2>1. WalkGood(longer) /\ longer.list # <<>>
    BY <1>0, <1>3, <1>t, ExtendedGood DEF FetchNextPage, FetchesOnlyMore
  <2>2. /\ pages' = longer /\ fetching' = "no"
        /\ UNCHANGED <<rows, newest, fresh, index>>
        /\ mishap' \in BOOLEAN
    BY <1>3 DEF FetchNextPage, Recall, Missing
  <2> HIDE DEF longer
  <2>3. FetchesOnlyMore'
    BY <2>1, <2>2 DEF FetchesOnlyMore
  <2> QED
    BY <1>0, <1>t, <2>1, <2>2, <2>3, SameRows
<1>4. CASE FetchFails
  <2>1. FetchesOnlyMore'
    BY <1>0, <1>4 DEF FetchFails, FetchesOnlyMore, MorePages, NoWalk
  <2>2. mishap' \in BOOLEAN
    BY <1>4 DEF FetchFails, Recall, Missing
  <2> QED
    BY <1>0, <1>4, <1>t, <2>1, <2>2, NoWalkGood, SameRows DEF FetchFails
<1>5. CASE GoToNextPage
  <2>1. /\ index' \in Nat \ {0} /\ fetching' \in {"no", "next", "all"}
        /\ UNCHANGED <<rows, newest, pages>> /\ mishap' \in BOOLEAN
    BY <1>5, <1>t DEF GoToNextPage, Recall, Missing
  <2>2. WalkGood(fresh')
    BY <1>0, <1>5, NoWalkGood DEF GoToNextPage
  <2>3. FetchesOnlyMore'
    BY <1>0, <1>5 DEF GoToNextPage, FetchesOnlyMore, MorePages, Last, NoWalk
  <2> QED
    BY <1>0, <1>t, <2>1, <2>2, <2>3, SameRows
<1>6. CASE GoToPreviousPage
  <2>1. /\ index' \in Nat \ {0}
        /\ UNCHANGED <<rows, newest, pages, fresh, fetching>>
        /\ mishap' \in BOOLEAN
    BY <1>6, <1>t DEF GoToPreviousPage, Recall, Missing
  <2>2. FetchesOnlyMore'
    BY <1>0, <1>6 DEF GoToPreviousPage, FetchesOnlyMore, MorePages, Last
  <2> QED
    BY <1>0, <1>t, <2>1, <2>2, SameRows
<1>7. CASE RowMade \/ \E i \in Id : RowMatches(i)
  <2>1. UNCHANGED <<pages, fresh, index, fetching, mishap>>
    BY <1>7 DEF RowMade, RowMatches
  <2>2. /\ rows' \subseteq Id /\ newest' \in 0..MaxId
        /\ rows \subseteq rows'
    <3>1. CASE RowMade
      BY <1>t, <3>1 DEF RowMade, Id
    <3>2. ASSUME NEW i \in Id, RowMatches(i)
          PROVE  /\ rows' \subseteq Id /\ newest' \in 0..MaxId
                 /\ rows \subseteq rows'
      BY <1>t, <3>2 DEF RowMatches
    <3> QED
      BY <1>7, <3>1, <3>2
  <2>3. PageTypeOK' /\ FetchesOnlyMore'
    BY <1>0, <2>1, <2>2 DEF PageTypeOK, FetchesOnlyMore, MorePages, Last
  <2>4. WalkGood(pages)' /\ WalkGood(fresh)'
    BY <1>0, <2>1, <2>2 DEF WalkGood, Ordered, Complete, Downward, Last
  <2> QED
    BY <2>3, <2>4, ByWalkNext
<1>8. ASSUME NEW i \in Id, RowGone(i)
      PROVE  PagesConsistent'
  <2>1. /\ rows' = rows \ {i}
        /\ pages' = [pages EXCEPT !.steady = @ \ {i}]
        /\ fresh' = [fresh EXCEPT !.steady = @ \ {i}]
        /\ UNCHANGED <<newest, index, fetching, mishap>>
    BY <1>8 DEF RowGone
  <2>2. /\ pages' \in Walk /\ pages'.steady \subseteq rows'
        /\ Ordered(pages') /\ Complete(pages') /\ Downward(pages')
        /\ pages'.list = pages.list
    BY <1>0, <2>1, GoodWithoutRow
  <2>3. /\ fresh' \in Walk /\ fresh'.steady \subseteq rows'
        /\ Ordered(fresh') /\ Complete(fresh') /\ Downward(fresh')
        /\ fresh'.list = fresh.list
    BY <1>0, <2>1, GoodWithoutRow
  <2>4. PageTypeOK'
    BY <1>t, <2>1, <2>2, <2>3 DEF PageTypeOK
  <2>5. WalkGood(pages)' /\ WalkGood(fresh)'
    BY <2>2, <2>3 DEF WalkGood, Ordered, Complete, Downward, Last
  <2>6. FetchesOnlyMore'
    BY <1>0, <2>1, <2>2, <2>3 DEF FetchesOnlyMore, MorePages, Last
  <2> QED
    BY <2>4, <2>5, <2>6, ByWalkNext
<1> QED
  BY <1>1, <1>2, <1>3, <1>4, <1>5, <1>6, <1>7, <1>8, <1>9 DEF PageNext

(* Nothing happens to the pages.                                           *)
LEMMA PagesStutter ==
  ASSUME PagesConsistent, UNCHANGED pageVars
  PROVE  PagesConsistent'
<1>1. UNCHANGED <<rows, newest, pages, fresh, index, fetching, mishap>>
  BY DEF pageVars
<1>2. /\ PageTypeOK /\ WalkGood(pages) /\ WalkGood(fresh)
      /\ FetchesOnlyMore
  BY ByWalk
<1>3. FetchesOnlyMore'
  BY <1>1, <1>2 DEF FetchesOnlyMore, MorePages, Last
<1> QED
  BY <1>1, <1>2, <1>3, SameRows DEF PageTypeOK

(* For any number of rows and any size of a page: however the list changes *)
(* between two fetches, no row is on two pages, and none that was there    *)
(* all the time is skipped.                                                *)
THEOREM PagesInvariance == PageSpec => []PagesConsistent
<1>1. PagesConsistent /\ [PageNext]_pageVars => PagesConsistent'
  BY PagesStep, PagesStutter
<1> QED
  BY PagesInit, <1>1, PTL DEF PageSpec

-----------------------------------------------------------------------------
(* The page that is shown.                                                 *)

(* The first list that is fetched is not empty.                            *)
LEMMA ShownStep ==
  ASSUME PagesConsistent, ShownOrComing, PageNext
  PROVE  ShownOrComing'
<1>0. /\ PageTypeOK /\ WalkGood(pages) /\ WalkGood(fresh)
      /\ FetchesOnlyMore
  BY ByWalk
<1>t. /\ rows \subseteq Id /\ index \in Nat \ {0}
      /\ Len(pages.list) \in Nat /\ mishap \in BOOLEAN
      /\ pages.list # <<>> => Len(pages.list) # 0
  BY <1>0 DEF PageTypeOK, Walk
<1>1. CASE Refetch
  BY <1>1 DEF Refetch, ShownOrComing, Missing
<1>9. CASE Invalidate
  BY <1>9 DEF Invalidate, Recall, ShownOrComing, Missing
<1>2. CASE RefetchPage
  <2> DEFINE longer == Extended(fresh)
  <2>1. /\ longer.list # <<>> /\ longer \in Walk
        /\ Len(longer.list) = Len(fresh.list) + 1 /\ Len(fresh.list) \in Nat
    BY <1>0, <1>2, <1>t, ExtendedGood
       DEF RefetchPage, FetchesOnlyMore, WalkGood, Walk
  <2>2. /\ fetching = "all" /\ index' = index
        /\ Recall(Len(pages'.list) < Len(pages.list))
    BY <1>2 DEF RefetchPage
  <2>3. CASE MorePages(longer) /\ Len(longer.list) < Len(pages.list)
    <3>1. UNCHANGED <<pages, fetching>>
      BY <1>2, <2>3 DEF RefetchPage
    <3> QED
      BY <2>2, <3>1 DEF ShownOrComing, Recall, Missing
  <2>4. CASE ~ (MorePages(longer) /\ Len(longer.list) < Len(pages.list))
    <3>1. pages' = longer
      BY <1>2, <2>4 DEF RefetchPage
    <3> HIDE DEF longer
    <3>2. CASE Len(longer.list) < Len(pages.list)
      BY <2>2, <3>1, <3>2 DEF ShownOrComing, Recall, Missing
    <3>3. CASE ~ (Len(longer.list) < Len(pages.list))
      <4>1. CASE pages.list = <<>>
        <5>1. ~ Missing'
          BY <1>0, <1>t, <2>1, <2>2, <3>1, <4>1 DEF FetchesOnlyMore, Missing
        <5> QED
          BY <5>1 DEF ShownOrComing
      <4>2. CASE pages.list # <<>>
        BY <1>t, <2>1, <2>2, <3>1, <3>3, <4>2 DEF ShownOrComing, Recall, Missing
      <4> QED
        BY <4>1, <4>2
    <3> QED
      BY <3>2, <3>3
  <2> QED
    BY <2>3, <2>4
<1>3. CASE FetchNextPage
  <2>1. /\ fetching = "next" /\ index' = index /\ Recall(FALSE)
        /\ pages' = Extended(pages) /\ pages.list # <<>>
    BY <1>0, <1>3 DEF FetchNextPage, FetchesOnlyMore
  <2>2. Len(pages'.list) = Len(pages.list) + 1
    BY <1>0, <1>3, <1>t, <2>1, ExtendedGood DEF FetchNextPage, FetchesOnlyMore
  <2> QED
    BY <1>t, <2>1, <2>2 DEF ShownOrComing, Recall, Missing
<1>4. CASE FetchFails
  BY <1>4 DEF FetchFails, ShownOrComing, Recall, Missing
<1>5. CASE GoToNextPage
  BY <1>5, <1>t DEF GoToNextPage, ShownOrComing, Recall, Missing
<1>6. CASE GoToPreviousPage
  BY <1>6, <1>t DEF GoToPreviousPage, ShownOrComing, Recall, Missing
<1>7. CASE RowMade
  BY <1>7 DEF RowMade, ShownOrComing, Missing
<1>8. ASSUME NEW i \in Id, RowGone(i) \/ RowMatches(i)
      PROVE  ShownOrComing'
  <2>1. pages'.list = pages.list /\ UNCHANGED <<index, fetching, mishap>>
    BY <1>0, <1>8 DEF RowGone, RowMatches, PageTypeOK, Walk
  <2> QED
    BY <2>1 DEF ShownOrComing, Missing
<1> QED
  BY <1>1, <1>2, <1>3, <1>4, <1>5, <1>6, <1>7, <1>8, <1>9 DEF PageNext

(* For any number of rows and any size of a page: the page that is shown   *)
(* is in the cache or on its way, or has been missing since a fetch failed, *)
(* a refetch found fewer pages or a mutation gave up its fetch.             *)
THEOREM ShownPageComes == PageSpec => []ShownOrComing
<1>1. PageInit => ShownOrComing
  BY DEF PageInit, ShownOrComing, Missing, NoWalk
<1>2. PagesConsistent /\ ShownOrComing /\ [PageNext]_pageVars => ShownOrComing'
  <2>1. PagesConsistent /\ ShownOrComing /\ PageNext => ShownOrComing'
    BY ShownStep
  <2>2. ShownOrComing /\ UNCHANGED pageVars => ShownOrComing'
    BY DEF ShownOrComing, Missing, pageVars
  <2> QED
    BY <2>1, <2>2
<1> QED
  BY <1>1, <1>2, PagesInvariance, PTL DEF PageSpec
=============================================================================
