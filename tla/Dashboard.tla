------------------------------ MODULE Dashboard ------------------------------
(***************************************************************************)
(* The dashboard of the terminal client (module dashboard in bin/app.rs):  *)
(* a menu of pages, a list of options and the section that is selected.    *)
(* Two sections are forms (CreateAuction and Bid), two are tables          *)
(* (AvailableAuctions and ProfileBids).  Every key is handled, then the    *)
(* screen is drawn; one action is both.                                    *)
(*                                                                         *)
(* Abstracted: text is empty, invalid or valid; what is in a table and     *)
(* where its cursor is; colours and layout; selections within a text,      *)
(* without which TextArea::cut() does nothing.  A request that a form      *)
(* sends is answered before the next key, in any of the ways handled.      *)
(***************************************************************************)
EXTENDS Integers, Sequences

VARIABLES
  page, area,
  selected,  \* options_state
  form,      \* the state of the two forms
  popup,     \* which tables have one
  panicked   \* option() found no section

dashboard == <<page, area, selected, form, popup, panicked>>

Page    == {"Auctions", "ProfileHistory"}
Area    == {"Menu", "List", "Body"}
Forms   == {"CreateAuction", "Bid"}
Tables  == {"AvailableAuctions", "ProfileBids"}
Fields  == {"First", "Second", "PrivateKey"}

(* The sections there are, and what the list on the left offers. *)
Options ==
  {<<"Auctions", 0, "AvailableAuctions">>, <<"Auctions", 1, "CreateAuction">>,
   <<"Auctions", 2, "Bid">>, <<"ProfileHistory", 0, "ProfileBids">>}
Items(p) == IF p = "Auctions" THEN 3 ELSE 2

(* What may be in the two texts of a form: any text is an auction id. *)
AmountTexts   == {"Empty", "Invalid", "Valid"}
OtherTexts(f) == IF f = "Bid" THEN {"Empty", "Valid"} ELSE AmountTexts

(* A form: the field with the focus, the two texts, the prompt for the     *)
(* private key if it is open, and whether there is a popup.                *)
NewForm == [field |-> "First", amount |-> "Empty", other |-> "Empty",
            prompt |-> "Closed", popup |-> FALSE]

(* A table has a popup if the node was not reached or has no first block.  *)
NewDashboard(none) ==
  /\ page' = "Auctions" /\ area' = "Body" /\ selected' = 0
  /\ form' = [f \in Forms |-> NewForm]
  /\ popup' = none
  /\ panicked' = FALSE

(* option() *)
Option == {o[3] : o \in {q \in Options : q[1] = page /\ q[2] = selected}}

Focused(section) == area = "Body" /\ section \in Option

-----------------------------------------------------------------------------
(* The forms *)

(* The creation asks for the amount first, the bid for the auction. *)
AmountField(f) == IF f = "CreateAuction" THEN "First" ELSE "Second"
OtherField(f)  == IF f = "CreateAuction" THEN "Second" ELSE "First"

(* The field to which Enter moves the focus because of a text, if any. *)
Complaint(f, s) ==
  CASE s.amount = "Empty" -> {"First"}
    [] s.amount = "Invalid" -> {AmountField(f)}
    [] s.amount = "Valid" /\ s.other # "Valid" -> {OtherField(f)}
    [] OTHER -> {}

(* exit_popup() *)
ExitPopup(s, message) ==
  [s EXCEPT !.popup = message, !.field = "First", !.prompt = "Closed"]

(* Enter: close the popup; or complain about a text; or open the prompt;   *)
(* or close it and, when a key was typed, send the request and tell how it *)
(* went.                                                                   *)
Enter(f, s) ==
  IF s.popup THEN {[s EXCEPT !.popup = FALSE]}
  ELSE IF Complaint(f, s) # {} THEN {[s EXCEPT !.field = c] : c \in Complaint(f, s)}
  ELSE IF s.prompt = "Closed"
  THEN {[s EXCEPT !.prompt = "Empty", !.field = "PrivateKey"]}
  ELSE {ExitPopup(s, s.prompt = "Typed")}

(* ^Z *)
Cancel(s) == {[s EXCEPT !.prompt = "Closed", !.field = "First"]}

(* Mutant: the focus moves although the prompt is open. *)
Toggle_Always(s) == {[s EXCEPT !.field = c] : c \in {"First", "Second"}}

(* Up and down. *)
Toggle(s) ==
  {[s EXCEPT !.field = c] : c \in IF s.field = "PrivateKey" THEN {s.field}
                                 ELSE {"First", "Second"}}

(* Mutant: the prompt is not thought of. *)
Type_IgnoresPrompt(f, s) ==
  IF s.field = AmountField(f) THEN {[s EXCEPT !.amount = v] : v \in AmountTexts}
  ELSE {[s EXCEPT !.other = v] : v \in OtherTexts(f)}

(* Any other key goes to the text that has the focus. *)
Type(f, s) ==
  IF s.field = AmountField(f) THEN {[s EXCEPT !.amount = v] : v \in AmountTexts}
  ELSE IF s.field = OtherField(f) THEN {[s EXCEPT !.other = v] : v \in OtherTexts(f)}
  ELSE {[s EXCEPT !.prompt = v] : v \in {s.prompt} \cup
          IF s.prompt = "Closed" THEN {} ELSE {"Empty", "Typed"}}

(* render() of a form drops a popup that the prompt would cover. *)
Render(s) == [s EXCEPT !.popup = @ /\ s.prompt = "Closed"]

(* Mutant: the form gets the keys although the focus is on the menu. *)
HandleForm_AnyArea(f) ==
  /\ f \in Option
  /\ \E s \in Enter(f, form[f]) \cup Cancel(form[f]) \cup Toggle(form[f])
              \cup Type(f, form[f]) :
       form' = [form EXCEPT ![f] = Render(s)]
  /\ UNCHANGED <<page, area, selected, popup, panicked>>

(* handle_io() of a form. *)
HandleForm(f) ==
  /\ Focused(f)
  /\ \E s \in Enter(f, form[f]) \cup Cancel(form[f]) \cup Toggle(form[f])
              \cup Type(f, form[f]) :
       form' = [form EXCEPT ![f] = Render(s)]
  /\ UNCHANGED <<page, area, selected, popup, panicked>>

(* handle_io() of a table only moves its cursor. *)
HandleTable(t) == Focused(t) /\ UNCHANGED dashboard

-----------------------------------------------------------------------------
(* The dashboard *)

(* draw(): the list first brings the selection within its items, then      *)
(* option() is called for the title, which panics when there is none.      *)
Draw(p, s) ==
  LET shown == IF s >= Items(p) THEN Items(p) - 1 ELSE s
  IN  /\ page' = p /\ selected' = shown
      /\ panicked' = ~\E o \in Options : o[1] = p /\ o[2] = shown

HasPopup ==
  \/ \E f \in Forms \cap Option : form[f].popup
  \/ \E t \in Tables \cap Option : popup[t]

(* ^S *)
SwitchWindow ==
  /\ area' = IF HasPopup THEN area
             ELSE CASE area = "List" -> "Body"
                    [] area = "Body" -> "Menu"
                    [] area = "Menu" -> "List"
  /\ UNCHANGED <<page, selected, form, popup, panicked>>

(* Left and right in the menu: another page starts with its first option.  *)
GoToPage(p) ==
  /\ area = "Menu"
  /\ Draw(p, IF p = page THEN selected ELSE 0)
  /\ UNCHANGED <<area, form, popup>>

(* Up and down in the list. *)
SelectNext ==
  /\ area = "List"
  /\ Draw(page, selected + 1)
  /\ UNCHANGED <<area, form, popup>>
SelectPrevious ==
  /\ area = "List"
  /\ Draw(page, IF selected = 0 THEN 0 ELSE selected - 1)
  /\ UNCHANGED <<area, form, popup>>

HandleKey ==
  /\ ~panicked
  /\ \/ SwitchWindow
     \/ \E p \in Page : GoToPage(p)
     \/ SelectNext
     \/ SelectPrevious
     \/ \E f \in Forms : HandleForm(f)
     \/ \E t \in Tables : HandleTable(t)

-----------------------------------------------------------------------------

(* The dashboard has its types. *)
DashboardTypeOK ==
  /\ page \in Page /\ area \in Area /\ selected \in 0 .. 2
  /\ \A f \in Forms :
       /\ form[f].field \in Fields /\ form[f].popup \in BOOLEAN
       /\ form[f].amount \in AmountTexts /\ form[f].other \in OtherTexts(f)
       /\ form[f].prompt \in {"Closed", "Empty", "Typed"}
  /\ popup \in [Tables -> BOOLEAN] /\ panicked \in BOOLEAN

(* A key that is typed is never seen: as long as the prompt of a form is   *)
(* open, no key stroke reaches the texts shown in clear, whether the user  *)
(* tries to move on, leaves the window and comes back, or an answer puts   *)
(* the focus elsewhere.                                                    *)
KeyStaysMasked ==
  [][\A f \in Forms :
       form[f].prompt # "Closed" =>
         form'[f].amount = form[f].amount /\ form'[f].other = form[f].other]_dashboard

(* No form is left with a private key in it and the focus on a text: it    *)
(* would be sent with the next Enter, with whatever was typed since.       *)
PromptHasFocus ==
  \A f \in Forms : form[f].prompt # "Closed" <=> form[f].field = "PrivateKey"

(* Keys only reach the section that is drawn with the focus: what was      *)
(* typed in another form, and a prompt left open in it, is there when the  *)
(* user comes back.                                                        *)
HiddenFormsUntouched ==
  [][\A f \in Forms : form'[f] # form[f] => Focused(f)]_dashboard

(* unreachable!() in option() (bin/app.rs:2346). *)
OptionExists == ~panicked

(* "Use arrows to move, ^S to switch window" (bin/app.rs:2442): where no   *)
(* popup is drawn that has to be closed first, ^S goes on to another       *)
(* window.                                                                 *)
PopupDrawn == \E f \in Forms \cap Option : form[f].popup
SwitchesWindow == HasPopup => PopupDrawn
=============================================================================
