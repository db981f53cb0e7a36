---------------------------- MODULE ConsoleForms ----------------------------
(***************************************************************************)
(* The detail pages of the console.  Several administrators have one       *)
(* record open; each page shows what it fetched last.  A form starts from  *)
(* those values, sends all its fields on save and starts over when a fetch *)
(* brings other values; a dialog that asks for confirmation keeps standing *)
(* while the record behind it changes.                                     *)
(***************************************************************************)
EXTENDS Naturals

CONSTANTS
  Viewer,       \* open detail pages
  Field,        \* the fields of the form
  Value,
  Closed        \* no dialog

ASSUME FormsAssumption == Closed \notin Value /\ Value # {}

VARIABLES
  fields, status,   \* the record on the server
  cached,           \* the record as a page fetched it last
  form,             \* what stands in the form
  edited,           \* the fields the administrator typed in since
  dialog,           \* what a page asks to be confirmed, or Closed
  behind,           \* history: fields changed since the fetch
  moved             \* history: the status changed since the dialog opened

formsVars == <<fields, status, cached, form, edited, dialog, behind, moved>>

-----------------------------------------------------------------------------
UserStatus == {"pending", "active", "suspended", "deactivated"}

Fields == [Field -> Value]

(* The transitions that the page of a user offers.                         *)
AvailableTransitions(s) ==
  CASE s \in {"pending", "suspended"} -> {"active", "deactivated"}
    [] s = "active"                   -> {"suspended", "deactivated"}
    [] s = "deactivated"              -> {"active"}

Destructive == {"suspended", "deactivated"}

FormsTypeOK ==
  /\ fields \in Fields /\ status \in UserStatus
  /\ cached \in [Viewer -> [fields : Fields, status : UserStatus]]
  /\ form \in [Viewer -> Fields]
  /\ edited \in [Viewer -> SUBSET Field]
  /\ dialog \in [Viewer -> Destructive \cup {Closed}]
  /\ behind \in [Viewer -> SUBSET Field]
  /\ moved \in [Viewer -> BOOLEAN]

FormsInit ==
  /\ \E v \in Value : fields = [f \in Field |-> v]
  /\ status = "pending"
  /\ cached = [w \in Viewer |-> [fields |-> fields, status |-> status]]
  /\ form = [w \in Viewer |-> fields]
  /\ edited = [w \in Viewer |-> {}]
  /\ dialog = [w \in Viewer |-> Closed]
  /\ behind = [w \in Viewer |-> {}]
  /\ moved = [w \in Viewer |-> FALSE]

-----------------------------------------------------------------------------
\* Mutant: the form keeps the values it started with.
FetchBesideForm(w) ==
  /\ cached' = [cached EXCEPT ![w] = [fields |-> fields, status |-> status]]
  /\ behind' = [behind EXCEPT ![w] = {}]
  /\ UNCHANGED <<fields, status, form, edited, dialog, moved>>

(* A fetch: on mount, after a mutation, when a stale page comes back into  *)
(* use.  Values other than before reset the form, typed or not.            *)
Fetch(w) ==
  /\ cached' = [cached EXCEPT ![w] = [fields |-> fields, status |-> status]]
  /\ behind' = [behind EXCEPT ![w] = {}]
  /\ IF cached[w].fields # fields
     THEN /\ form' = [form EXCEPT ![w] = fields]
          /\ edited' = [edited EXCEPT ![w] = {}]
     ELSE UNCHANGED <<form, edited>>
  /\ UNCHANGED <<fields, status, dialog, moved>>

Edit(w, f, v) ==
  /\ form' = [form EXCEPT ![w][f] = v]
  /\ edited' = [edited EXCEPT ![w] = @ \cup {f}]
  /\ UNCHANGED <<fields, status, cached, dialog, behind, moved>>

CancelEdit(w) ==
  /\ form' = [form EXCEPT ![w] = cached[w].fields]
  /\ edited' = [edited EXCEPT ![w] = {}]
  /\ UNCHANGED <<fields, status, cached, dialog, behind, moved>>

(* All the fields are sent; until the fetch that follows, the page itself  *)
(* is behind.                                                              *)
SaveForm(w) ==
  /\ fields' = form[w]
  /\ behind' = [u \in Viewer |->
       behind[u] \cup {f \in Field : fields'[f] # fields[f]}]
  /\ UNCHANGED <<status, cached, form, edited, dialog, moved>>

-----------------------------------------------------------------------------
(* The server takes any status; what keeps to the transitions is the page. *)
SetStatus(s) ==
  /\ status' = s
  /\ moved' = [u \in Viewer |->
       moved[u] \/ (dialog[u] # Closed /\ status # s)]

(* A transition that destroys nothing is made at once.                     *)
Transition(w) ==
  /\ dialog[w] = Closed
  /\ \E s \in AvailableTransitions(cached[w].status) \ Destructive :
       SetStatus(s)
  /\ UNCHANGED <<fields, cached, form, edited, dialog, behind>>

\* Mutant: every transition is offered whatever the status.
OfferAny(w) ==
  /\ dialog[w] = Closed
  /\ \E s \in Destructive : dialog' = [dialog EXCEPT ![w] = s]
  /\ moved' = [moved EXCEPT ![w] = status # cached[w].status]
  /\ UNCHANGED <<fields, status, cached, form, edited, behind>>

OpenDialog(w) ==
  /\ dialog[w] = Closed
  /\ \E s \in AvailableTransitions(cached[w].status) \cap Destructive :
       dialog' = [dialog EXCEPT ![w] = s]
  /\ moved' = [moved EXCEPT ![w] = status # cached[w].status]
  /\ UNCHANGED <<fields, status, cached, form, edited, behind>>

(* The dialog of a user keeps the transition it was opened with; it closes *)
(* when the answer comes.                                                  *)
Confirm(w) ==
  /\ dialog[w] # Closed
  /\ status' = dialog[w]
  /\ moved' = [u \in Viewer |->
       u # w /\ (moved[u] \/ (dialog[u] # Closed /\ status # status'))]
  /\ dialog' = [dialog EXCEPT ![w] = Closed]
  /\ UNCHANGED <<fields, cached, form, edited, behind>>

CloseDialog(w) ==
  /\ dialog[w] # Closed
  /\ dialog' = [dialog EXCEPT ![w] = Closed]
  /\ moved' = [moved EXCEPT ![w] = FALSE]
  /\ UNCHANGED <<fields, status, cached, form, edited, behind>>

FormsNext ==
  \E w \in Viewer :
    \/ Fetch(w) \/ CancelEdit(w) \/ SaveForm(w)
    \/ \E f \in Field, v \in Value : Edit(w, f, v)
    \/ Transition(w) \/ OpenDialog(w) \/ Confirm(w) \/ CloseDialog(w)

FormsSpec == FormsInit /\ [][FormsNext]_formsVars

-----------------------------------------------------------------------------
(* A form sends every field, so it can take back what others saved, but    *)
(* only changes the page has not fetched yet: a field that was neither     *)
(* touched nor changed since the last fetch is sent as the server has it.  *)
RevertsOnlyUnseen ==
  \A w \in Viewer : \A f \in Field \ (edited[w] \cup behind[w]) :
    form[w][f] = fields[f]

FormsIndInv ==
  /\ FormsTypeOK
  /\ RevertsOnlyUnseen
  /\ \A w \in Viewer :
       /\ \A f \in Field \ edited[w] : form[w][f] = cached[w].fields[f]
       /\ \A f \in Field \ behind[w] : cached[w].fields[f] = fields[f]
       /\ dialog[w] # Closed /\ ~moved[w] =>
            dialog[w] \in AvailableTransitions(status)

(* The status moves along the transitions the pages offer, unless a page   *)
(* acted on an older status than the server's: nothing else keeps an       *)
(* administrator from suspending a user who has been deactivated meanwhile.*)
MovesAsOffered ==
  [][status' # status =>
       \/ status' \in AvailableTransitions(status)
       \/ \E w \in Viewer :
            \/ dialog'[w] # dialog[w] /\ moved[w]
            \/ dialog' = dialog /\ cached[w].status # status]_formsVars
=============================================================================
