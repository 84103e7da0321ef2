---------------------------- MODULE ProgramProofs -----------------------------
(***************************************************************************)
(* Proofs about the programs around a node: the clients that use it, and   *)
(* the start of the node's own.                                            *)
(*                                                                         *)
(* TerminalClient and the Dashboard in it, for every set of keys: the      *)
(* prompt for the private key has the focus as long as it is open, so      *)
(* nothing that is typed there reaches a text shown in clear; and the      *)
(* dashboard belongs to an account of the node.                            *)
(*                                                                         *)
(* BotClient, for any number of steps, refusals, lost blocks and lost      *)
(* answers: the nonce a bot counts itself is never ahead of its account,   *)
(* is behind only after a lost answer, and then for good.                  *)
(*                                                                         *)
(* PeerIdentity, for every set of keys and every set of mined ones: a node *)
(* keeps the identity it was known by.                                     *)
(*                                                                         *)
(* AuctionViews, for any accounts, auctions, amounts and chain: the tables *)
(* of the terminal client say what the chain says, and a bid that its form *)
(* submits may win.  The tables are folds over the transactions, which the *)
(* community modules define by a recursive function.  FoldSteps turns a    *)
(* fold into the values it has after each transaction, and UpTo is         *)
(* induction over positions with a set for the induction hypothesis.  What *)
(* is left is one lemma per fold about one transaction: AvailableStep,     *)
(* ProfileStep, BidStep.                                                   *)
(***************************************************************************)
EXTENDS TerminalClient, BotClient, PeerIdentity, AuctionViews,
        FiniteSetTheorems, SequenceTheorems, NaturalsInduction,
        WellFoundedInduction, TLAPS

(* The part of the types that the arguments need. *)
FormType == [field : Fields, amount : AmountTexts, other : AmountTexts,
             prompt : {"Closed", "Empty", "Typed"}, popup : BOOLEAN]

(* What the prompt looks like in a form that is in order: it is open       *)
(* exactly when it has the focus, and it is only opened over texts that    *)
(* Enter has nothing to complain about.                                    *)
InOrder(f, s) ==
  /\ s.other \in OtherTexts(f)
  /\ s.prompt # "Closed" <=> s.field = "PrivateKey"
  /\ s.prompt # "Closed" => s.amount = "Valid" /\ s.other = "Valid"

(* The strengthening. *)
FormsInv ==
  /\ form \in [Forms -> FormType]
  /\ \A f \in Forms : InOrder(f, form[f])

(* What a form may be after a key stroke. *)
After(f, s) == Enter(f, s) \cup Cancel(s) \cup Toggle(s) \cup Type(f, s)

(* A form in order stays so with every key, and what is typed while the    *)
(* prompt is open leaves the two texts alone.                              *)
LEMMA KeyStroke ==
  ASSUME NEW f \in Forms, NEW s \in FormType, InOrder(f, s), NEW u \in After(f, s)
  PROVE  /\ u \in FormType /\ InOrder(f, u)
         /\ s.prompt # "Closed" => u.amount = s.amount /\ u.other = s.other
<1> USE DEF FormType, Fields, AmountTexts, OtherTexts, InOrder, Forms
<1>1. CASE u \in Enter(f, s)
  <2>1. CASE s.popup
    BY <1>1, <2>1 DEF Enter
  <2>2. CASE ~s.popup /\ Complaint(f, s) # {}
    <3>1. PICK c \in Complaint(f, s) : u = [s EXCEPT !.field = c]
      BY <1>1, <2>2 DEF Enter
    <3>2. c \in {"First", "Second"} /\ s.prompt = "Closed"
      BY DEF Complaint, AmountField, OtherField
    <3> QED
      BY <3>1, <3>2
  <2>3. CASE ~s.popup /\ Complaint(f, s) = {}
    <3>1. s.amount = "Valid" /\ s.other = "Valid"
      BY <2>3 DEF Complaint
    <3> QED
      BY <1>1, <2>3, <3>1 DEF Enter, ExitPopup
  <2> QED
    BY <2>1, <2>2, <2>3
<1>2. CASE u \in Cancel(s)
  BY <1>2 DEF Cancel
<1>3. CASE u \in Toggle(s)
  BY <1>3 DEF Toggle
<1>4. CASE u \in Type(f, s)
  BY <1>4 DEF Type, AmountField, OtherField
<1> QED
  BY <1>1, <1>2, <1>3, <1>4 DEF After

(* Drawing a form keeps it in order. *)
LEMMA RenderKeeps ==
  ASSUME NEW f \in Forms, NEW s \in FormType, InOrder(f, s)
  PROVE  /\ Render(s) \in FormType /\ InOrder(f, Render(s))
         /\ Render(s).amount = s.amount /\ Render(s).other = s.other
  BY DEF Render, FormType, InOrder, OtherTexts

(* A new dashboard has its forms in order. *)
LEMMA NewFormsInOrder ==
  form' = [f \in Forms |-> NewForm] => FormsInv'
  BY DEF NewForm, FormsInv, FormType, InOrder, Fields, AmountTexts, OtherTexts

(* A key on the dashboard keeps the forms in order, and the texts of a     *)
(* form whose prompt is open.                                              *)
LEMMA KeyKeepsForms ==
  ASSUME FormsInv, HandleKey
  PROVE  /\ FormsInv'
         /\ \A f \in Forms : form[f].prompt # "Closed" =>
              form'[f].amount = form[f].amount /\ form'[f].other = form[f].other
<1>1. CASE UNCHANGED form
  BY <1>1 DEF FormsInv
<1>2. ASSUME NEW g \in Forms, HandleForm(g)
      PROVE  /\ FormsInv'
             /\ \A f \in Forms : form[f].prompt # "Closed" =>
                  form'[f].amount = form[f].amount /\ form'[f].other = form[f].other
  <2>1. PICK u \in After(g, form[g]) : form' = [form EXCEPT ![g] = Render(u)]
    BY <1>2 DEF HandleForm, After
  <2>2. form[g] \in FormType /\ InOrder(g, form[g]) /\ form \in [Forms -> FormType]
    BY DEF FormsInv
  <2>3. /\ u \in FormType /\ InOrder(g, u)
        /\ form[g].prompt # "Closed" => u.amount = form[g].amount /\ u.other = form[g].other
    BY <2>1, <2>2, KeyStroke
  <2>4. /\ Render(u) \in FormType /\ InOrder(g, Render(u))
        /\ Render(u).amount = u.amount /\ Render(u).other = u.other
    BY <2>3, RenderKeeps
  <2>5. form' \in [Forms -> FormType] /\ form'[g] = Render(u)
        /\ \A f \in Forms \ {g} : form'[f] = form[f]
    BY <2>1, <2>2, <2>4
  <2>6. \A f \in Forms : InOrder(f, form'[f])
    BY <2>4, <2>5 DEF FormsInv
  <2> QED
    BY <2>3, <2>4, <2>5, <2>6 DEF FormsInv
<1> QED
  BY <1>1, <1>2 DEF HandleKey, SwitchWindow, GoToPage, SelectNext, SelectPrevious,
     HandleTable, dashboard

-----------------------------------------------------------------------------
(* The program *)

(* The strengthening: until the user logs in the forms are new, GenKeys    *)
(* shows a key pair, and who is past both has an account.                  *)
IInv ==
  /\ TypeOK
  /\ FormsInv
  /\ screen \in {"LogKeys", "GenKeys"} => form = [f \in Forms |-> NewForm]
  /\ screen = "GenKeys" => generated \in minted
  /\ DashboardHasAccount

(* The part of DashboardTypeOK about the forms. *)
FormsTyping ==
  \A f \in Forms :
    /\ form[f].field \in Fields /\ form[f].popup \in BOOLEAN
    /\ form[f].amount \in AmountTexts /\ form[f].other \in OtherTexts(f)
    /\ form[f].prompt \in {"Closed", "Empty", "Typed"}

(* Forms in order have their types.                                        *)
LEMMA FormsTyped == FormsInv => FormsTyping
  BY DEF FormsInv, FormType, InOrder, FormsTyping

(* The program starts in order.                                            *)
LEMMA InitEstablishes == Init => IInv
<1> SUFFICES ASSUME Init PROVE IInv
  OBVIOUS
<1>1. FormsInv
  BY DEF Init, NewForm, FormsInv, FormType, InOrder, Fields, AmountTexts, OtherTexts
<1>2. popup \in [Tables -> BOOLEAN]
  BY DEF Init
<1>3. page \in Page /\ area \in Area /\ selected \in 0 .. 2
  BY DEF Init, Page, Area
<1>5. panicked \in BOOLEAN
  BY DEF Init
<1>4. DashboardTypeOK
  BY <1>1, <1>2, <1>3, <1>5, FormsTyped DEF DashboardTypeOK, FormsTyping
<1> QED
  BY <1>1, <1>4 DEF Init, IInv, TypeOK, KeyFields, DashboardHasAccount

(* A key on the dashboard keeps its types. *)
LEMMA KeyKeepsTypes ==
  ASSUME DashboardTypeOK, FormsInv, HandleKey PROVE DashboardTypeOK'
<1>1. FormsInv'
  BY KeyKeepsForms
<1>2. FormsTyping'
  BY <1>1 DEF FormsInv, FormType, InOrder, FormsTyping
<1>3. popup' = popup
  BY DEF HandleKey, SwitchWindow, GoToPage, SelectNext, SelectPrevious, HandleForm, HandleTable,
     dashboard
<1>4. page' \in Page /\ area' \in Area /\ selected' \in 0 .. 2 /\ panicked' \in BOOLEAN
  <2>1. CASE SwitchWindow
    BY <2>1 DEF SwitchWindow, DashboardTypeOK, Area
  <2>2. ASSUME NEW p \in Page, GoToPage(p)
        PROVE page' \in Page /\ area' \in Area /\ selected' \in 0 .. 2 /\ panicked' \in BOOLEAN
    BY <2>2 DEF GoToPage, Draw, Items, DashboardTypeOK
  <2>3. CASE SelectNext
    BY <2>3 DEF SelectNext, Draw, Items, DashboardTypeOK
  <2>4. CASE SelectPrevious
    BY <2>4 DEF SelectPrevious, Draw, Items, DashboardTypeOK
  <2>5. CASE UNCHANGED <<page, area, selected, panicked>>
    BY <2>5 DEF DashboardTypeOK
  <2> QED
    BY <2>1, <2>2, <2>3, <2>4, <2>5 DEF HandleKey, HandleForm, HandleTable, dashboard
<1> QED
  BY <1>2, <1>3, <1>4 DEF DashboardTypeOK, FormsTyping

(* Every step keeps the invariant. *)
LEMMA StepPreserves == IInv /\ [Next]_vars => IInv'
<1> SUFFICES ASSUME IInv, [Next]_vars PROVE IInv'
  OBVIOUS
<1> DEFINE SameDashboard == UNCHANGED dashboard
<1>1. SameDashboard => DashboardTypeOK' /\ FormsInv'
  BY DEF dashboard, IInv, TypeOK, DashboardTypeOK, FormsInv
<1> USE NoKeyAssumption DEF IInv, TypeOK, KeyFields, DashboardHasAccount
<1>2. CASE MoveFocus
  BY <1>1, <1>2 DEF MoveFocus, Up, Down, node, dashboard
<1>3. CASE ClosePopup
  BY <1>1, <1>3 DEF ClosePopup, node, dashboard
<1>4. CASE Generate
  BY <1>1, <1>4 DEF Generate, node, dashboard
<1>5. CASE TypeKey
  BY <1>1, <1>5 DEF TypeKey, node, dashboard
<1>6. CASE LogIn
  <2>1. PICK none \in [Tables -> BOOLEAN] : NewDashboard(none)
    BY <1>6 DEF LogIn
  <2>2. FormsInv' /\ form' = [f \in Forms |-> NewForm]
    BY <2>1, NewFormsInOrder DEF NewDashboard
  <2>3. page' \in Page /\ area' \in Area /\ selected' \in 0 .. 2
    BY <2>1 DEF NewDashboard, Page, Area
  <2>8. panicked' \in BOOLEAN
    BY <2>1 DEF NewDashboard
  <2>4. FormsTyping' /\ popup' \in [Tables -> BOOLEAN]
    BY <2>1, <2>2 DEF NewDashboard, FormsInv, FormType, InOrder, FormsTyping
  <2>5. DashboardTypeOK'
    BY <2>3, <2>4, <2>8 DEF DashboardTypeOK, FormsTyping
  <2>6. TypeOK'
    <3>1. {private', message'} \subseteq BOOLEAN
      BY <1>6 DEF LogIn
    <3>2. {public', generated', account'} \subseteq Key \cup {NoKey}
      BY <1>6 DEF LogIn
    <3>3. /\ screen' = "Dashboard" /\ field' \in KeyFields
          /\ minted' \subseteq Key /\ pending' \subseteq minted' /\ registered' \subseteq Key
      BY <1>6 DEF LogIn, node
    <3> QED
      BY <2>5, <3>1, <3>2, <3>3
  <2>7. screen' = "Dashboard" /\ account' \in registered'
    BY <1>6 DEF LogIn, node
  <2> QED
    BY <2>2, <2>6, <2>7
<1>7. CASE LogInFails
  BY <1>1, <1>7 DEF LogInFails, Ready, Fail, node, dashboard
<1>8. CASE Register
  BY <1>1, <1>8 DEF Register, CanRegister, dashboard
<1>9. CASE RegisterFails
  BY <1>1, <1>9 DEF RegisterFails, CanRegister, Fail, dashboard
<1>10. ASSUME NEW k \in Key, ExecuteRegistration(k) PROVE IInv'
  BY <1>1, <1>10 DEF ExecuteRegistration, keys, dashboard
<1>11. CASE HandleDashboard
  <2>1. DashboardTypeOK' /\ FormsInv'
    BY <1>11, KeyKeepsTypes, KeyKeepsForms DEF HandleDashboard
  <2> QED
    BY <1>11, <2>1 DEF HandleDashboard, keys, node
<1>12. CASE Quit
  BY <1>1, <1>12 DEF Quit, keys, node, dashboard
<1>13. CASE UNCHANGED vars
  BY <1>1, <1>13 DEF vars, keys, node, dashboard
<1> QED
  BY <1>2, <1>3, <1>4, <1>5, <1>6, <1>7, <1>8, <1>9, <1>10, <1>11, <1>12, <1>13 DEF Next

(* The invariant holds in all behaviours.                                  *)
LEMMA Invariance == Spec => []IInv
  BY InitEstablishes, StepPreserves, PTL DEF Spec

(* Type correctness of the client. *)
THEOREM TypeInvariance == Spec => []TypeOK
<1>1. IInv => TypeOK
  BY DEF IInv
<1> QED
  BY <1>1, Invariance, PTL

(* No form has a private key in it and the focus on a text.                *)
THEOREM PromptsHaveFocus == Spec => []PromptHasFocus
<1>1. IInv => PromptHasFocus
  BY DEF IInv, FormsInv, PromptHasFocus, InOrder
<1> QED
  BY <1>1, Invariance, PTL

(* Whoever uses the dashboard has an account on the node.                  *)
THEOREM DashboardsHaveAccounts == Spec => []DashboardHasAccount
<1>1. IInv => DashboardHasAccount
  BY DEF IInv
<1> QED
  BY <1>1, Invariance, PTL

(* What a step does to the forms: nothing, unless it is a key on the       *)
(* dashboard.  A login opens a new dashboard, before which they were new.  *)
LEMMA StepOfForms ==
  IInv /\ [Next]_vars => UNCHANGED form \/ HandleKey
<1> SUFFICES ASSUME IInv, [Next]_vars PROVE UNCHANGED form \/ HandleKey
  OBVIOUS
<1>1. CASE LogIn
  BY <1>1 DEF LogIn, Ready, NewDashboard, IInv
<1> QED
  BY <1>1 DEF Next, vars, dashboard, MoveFocus, ClosePopup, Generate, TypeKey,
     LogInFails, Register, RegisterFails, Fail, ExecuteRegistration, HandleDashboard, Quit

(* As long as the prompt of a form is open its texts are left alone.       *)
LEMMA StepMasksKey ==
  IInv /\ [Next]_vars =>
    [\A f \in Forms :
       form[f].prompt # "Closed" =>
         form'[f].amount = form[f].amount /\ form'[f].other = form[f].other]_dashboard
  BY StepOfForms, KeyKeepsForms DEF IInv

(* A private key that is typed is never seen.                              *)
THEOREM KeysStayMasked == Spec => KeyStaysMasked
  BY Invariance, StepMasksKey, PTL DEF Spec, KeyStaysMasked

(* A form changes only while it is drawn with the focus.                   *)
LEMMA StepLeavesHiddenForms ==
  IInv /\ [Next]_vars =>
    [\A f \in Forms : form'[f] # form[f] => Focused(f)]_dashboard
<1> SUFFICES ASSUME IInv, [Next]_vars, NEW f \in Forms, form'[f] # form[f]
             PROVE  Focused(f)
  OBVIOUS
<1>1. HandleKey
  BY StepOfForms
<1>2. PICK g \in Forms : HandleForm(g)
  BY <1>1 DEF HandleKey, SwitchWindow, GoToPage, SelectNext, SelectPrevious, HandleTable,
     dashboard
<1>3. g = f
  BY <1>2 DEF HandleForm, IInv, FormsInv
<1> QED
  BY <1>2, <1>3 DEF HandleForm

(* Keys only reach the section that is drawn with the focus.               *)
THEOREM HiddenFormsStay == Spec => HiddenFormsUntouched
  BY Invariance, StepLeavesHiddenForms, PTL DEF Spec, HiddenFormsUntouched

(* GenKeys is only left for LogKeys by a registration the node executed.   *)
LEMMA StepCarriesKeys ==
  IInv /\ [Next]_vars =>
    [screen = "GenKeys" /\ screen' = "LogKeys" =>
       public' = generated /\ private' /\ public' \in registered']_vars
<1> SUFFICES ASSUME IInv, Next, screen = "GenKeys", screen' = "LogKeys"
             PROVE  public' = generated /\ private' /\ public' \in registered'
  BY DEF vars
<1>1. Register
  BY DEF Next, MoveFocus, ClosePopup, Generate, TypeKey, LogIn, LogInFails, Ready,
     RegisterFails, Fail, ExecuteRegistration, HandleDashboard, Quit
<1>2. public' = generated /\ public' \in registered'
  BY <1>1 DEF Register
<1>3. private'
  BY <1>1 DEF Register
<1> QED
  BY <1>2, <1>3

(* Who comes back from GenKeys finds the keys of an account filled in.     *)
THEOREM KeysAreCarriedOver == Spec => KeysCarriedOver
  BY Invariance, StepCarriesKeys, PTL DEF Spec, KeysCarriedOver

-----------------------------------------------------------------------------
(* The bots *)

(* The calls of the scripts, by what they ask for. *)
CallType == [nonce : {"ctx", "cached", "skip"}, signed : BOOLEAN,
             expect : {"anything", "accept", "reject"}, counts : {"send", "step", "no"}]
RequestType == [call : CallType, nonce : Nat, at : {"sent", "pending"}]

(* The two calls of the double-spend bot: the first is not counted, the    *)
(* second is counted although it is to be rejected.                        *)
Opens(c)  == c.expect = "accept" /\ c.counts = "no"
Settles(c) == c.expect = "reject" /\ c.counts = "step"

(* What a call of a script is like when the bot is where it makes it: an   *)
(* account is created first; a call that is counted by its rejection comes *)
(* from the double-spend bot; one that is never counted and is to be       *)
(* rejected has a reason to be.                                            *)
Proper(c) ==
  /\ c.expect = "anything" => c.counts = "send" /\ c.nonce = "ctx" /\ nonce = 0
  /\ c.nonce = "cached" => cached # {}
  /\ c.nonce = "skip" => bot = "nonce-skip"
  /\ Settles(c) \/ Opens(c) => c.nonce = "ctx"
  /\ c.expect = "reject" /\ c.counts = "no" =>
       \/ ~c.signed
       \/ c.nonce = "cached" /\ submitted_once
       \/ c.nonce = "skip"
  /\ bot = "replay" /\ c.counts = "step" => c.nonce = "cached" /\ c.expect = "accept"
  /\ bot = "nonce-skip" => c.expect = "anything" \/ c.counts = "no"

(* The types of the bot and its node; it waits for one answer at a time.   *)
BotTypes ==
  /\ bot \in BotKinds
  /\ nonce \in Nat /\ steps \in Nat /\ losses \in Nat
  /\ submitted_once \in BOOLEAN
  /\ cached = {} \/ \E n \in Nat : cached = {n}
  /\ account_nonce \in Nat \cup {-1}
  /\ pool_nonces \subseteq Nat
  /\ todo \in Seq(CallType) /\ Len(todo) <= 2
  /\ request \subseteq RequestType
  /\ \A r, q \in request : r = q

(* What is left of a step. *)
StepInv ==
  /\ request # {} => Len(todo) <= 1
  /\ \A i \in 1 .. Len(todo) :
       /\ Proper(todo[i])
       /\ todo[i].expect = "anything" => request = {} /\ Len(todo) = 1
  /\ Len(todo) = 2 => /\ Settles(todo[2]) <=> Opens(todo[1])
                      /\ ~Settles(todo[1]) /\ ~Opens(todo[2])
  /\ Len(todo) = 1 => ~Opens(todo[1])
  /\ \A r \in request : Opens(r.call) <=> Len(todo) = 1 /\ Settles(todo[1])

(* A request goes by what the bot counted when it was signed, which it     *)
(* still counts, and what is pending has the signature it should have.     *)
RequestInv ==
  \A r \in request :
    /\ Proper(r.call)
    /\ r.call.nonce = "ctx" => r.nonce = nonce
    /\ r.call.nonce = "cached" => cached = {r.nonce}
    /\ r.call.nonce = "skip" => r.nonce >= 90
    /\ r.at = "pending" => r.call.signed

(* The first of the two was executed, and the second is to count it. *)
Owed ==
  \/ request = {} /\ todo # <<>> /\ Settles(todo[1])
  \/ \E r \in request : Settles(r.call)

(* The bot is not ahead of its account, the replay bot's nonce is used     *)
(* once it was accepted, and the nonce-skip bot only ever creates its      *)
(* account.                                                                *)
CountInv ==
  /\ nonce <= Expected
  /\ Owed => nonce < Expected
  /\ submitted_once => cached # {} /\ \A n \in cached : n < Expected
  /\ bot = "nonce-skip" => nonce <= 1

(* While no answer is lost, the pool has the request that waits and no     *)
(* other transaction, and the bot is behind by what is owed.               *)
SyncInv ==
  losses = 0 =>
    /\ \A n \in pool_nonces : \E r \in request : r.at = "pending" /\ r.nonce = n
    /\ \A r \in request : r.at = "pending" => r.nonce \in pool_nonces
    /\ ~Owed => nonce = Expected
    /\ Owed => nonce = Expected - 1

(* The strengthening.                                                      *)
BotInv == BotTypes /\ StepInv /\ RequestInv /\ CountInv /\ SyncInv

(* Behind its account, with nothing to come that would help.               *)
Lags == nonce < Expected /\ ~Owed

(* An account that does not exist yet starts from nonce 0.                 *)
LEMMA ExpectedIsNat == account_nonce \in Nat \cup {-1} => Expected \in Nat
  BY DEF Expected

(* A bot is ready for the first call of its script.                        *)
LEMMA BotInitEstablishes ==
  ASSUME BotAssumption, BotInit PROVE BotInv
<1> USE DEF BotInit
<1>1. CreateAccount \in CallType /\ CreateAccount.expect = "anything"
      /\ CreateAccount.counts = "send" /\ CreateAccount.nonce = "ctx"
  BY DEF CreateAccount, Call, CallType
<1>2. BotTypes
  <2>1. todo \in Seq(CallType) /\ Len(todo) <= 2
    BY <1>1
  <2>2. submitted_once \in BOOLEAN
    OBVIOUS
  <2>3. bot \in BotKinds
    BY BotAssumption DEF BotAssumption
  <2> QED
    BY <2>1, <2>2, <2>3 DEF BotTypes
<1>3. Len(todo) = 1 /\ todo[1] = CreateAccount
  OBVIOUS
<1>4. StepInv
  BY <1>1, <1>3 DEF StepInv, Proper, Opens, Settles
<1>5. RequestInv /\ ~Owed
  BY <1>1, <1>3 DEF RequestInv, Owed, Settles
<1>6. CountInv /\ SyncInv
  BY <1>5 DEF CountInv, SyncInv, Expected
<1> QED
  BY <1>2, <1>4, <1>5, <1>6 DEF BotInv

(* What the bots make of an answer, whoever gives it: it is SUCCESSFUL     *)
(* only for the nonce the node expects.                                    *)
LEMMA AnswerKeeps ==
  ASSUME BotInv, NEW r \in request, NEW answer \in {"successful", "failed", "error"},
         Answered(r.call, answer),
         account_nonce' \in Nat \cup {-1},
         answer = "successful" =>
           r.at = "pending" /\ r.nonce = Expected /\ Expected' = Expected + 1,
         answer # "successful" => Expected' = Expected,
         losses' \in Nat, losses' = 0 => losses = 0 /\ answer # "error",
         pool_nonces' \subseteq Nat, losses' = 0 => pool_nonces' = {},
         BotAssumption
  PROVE  BotInv' /\ (Lags => Lags')
<1> DEFINE c == r.call
           met == Met(c, answer)
<1>1. c \in CallType /\ r \in RequestType /\ Len(todo) \in {0, 1} /\ todo \in Seq(CallType)
  <2>1. r \in RequestType /\ todo \in Seq(CallType) /\ Len(todo) <= 1
    BY DEF BotInv, BotTypes, StepInv
  <2>2. Len(todo) \in Nat
    BY <2>1
  <2>3. c \in CallType
    BY <2>1 DEF RequestType
  <2>4. \A k \in Nat : k <= 1 => k \in {0, 1}
    OBVIOUS
  <2>5. Len(todo) \in {0, 1}
    BY <2>1, <2>2, <2>4
  <2> QED
    BY <2>1, <2>3, <2>5
<1>2. /\ request' = {} /\ cached' = cached /\ bot' = bot
      /\ todo' = IF met THEN todo ELSE <<>>
      /\ nonce' = IF Counted(c, answer) THEN nonce + 1 ELSE nonce
      /\ submitted_once' = (submitted_once \/ (bot = "replay" /\ c.counts = "step" /\ met))
      /\ steps' = IF c.expect = "anything" /\ ~met THEN MaxSteps ELSE steps
  BY DEF Answered
<1>3. nonce \in Nat /\ Expected \in Nat /\ Expected' \in Nat /\ nonce <= Expected
  <2>1. Expected \in Nat
    BY ExpectedIsNat DEF BotInv, BotTypes
  <2> QED
    BY <2>1 DEF BotInv, BotTypes, CountInv
<1>4. /\ Proper(c)
      /\ c.nonce = "ctx" => r.nonce = nonce
      /\ c.nonce = "cached" => cached = {r.nonce}
      /\ c.nonce = "skip" => r.nonce >= 90
      /\ r.at = "pending" => c.signed
      /\ Opens(c) <=> Len(todo) = 1 /\ Settles(todo[1])
  BY DEF BotInv, RequestInv, StepInv
<1>5. Owed <=> Settles(c)
  BY DEF BotInv, BotTypes, Owed
<1>6. Settles(c) => nonce < Expected /\ answer # "successful"
  BY <1>3, <1>4, <1>5 DEF BotInv, CountInv, Proper
<1>7. nonce' \in Nat /\ nonce' <= Expected'
  <2>1. Counted(c, answer) => answer = "successful" \/ Settles(c)
    BY <1>1, <1>4 DEF Counted, Met, Settles, Proper, CallType
  <2> QED
    BY <1>2, <1>3, <1>6, <2>1
<1>8. Owed' <=> met /\ Opens(c)
  BY <1>1, <1>2, <1>4 DEF Owed
<1>9. Opens(c) => nonce' = nonce /\ ~Settles(c) /\ (met <=> answer = "successful")
  BY <1>1, <1>2 DEF Opens, Settles, Counted, Met, CallType
<1>10. CountInv'
  <2>1. Owed' => nonce' < Expected'
    BY <1>3, <1>8, <1>9
  <2>2. ASSUME submitted_once', NEW n \in cached' PROVE n < Expected'
    <3>1. CASE submitted_once
      <4>1. n < Expected /\ n \in Nat
        BY <1>2, <2>2, <3>1 DEF BotInv, CountInv, BotTypes
      <4> QED
        BY <1>3, <4>1
    <3>2. CASE ~submitted_once
      <4>1. c.nonce = "cached" /\ c.expect = "accept" /\ met
        BY <1>2, <1>4, <2>2, <3>2 DEF Proper
      <4>2. answer = "successful" /\ n = r.nonce
        BY <1>1, <1>2, <1>4, <2>2, <4>1 DEF Met, CallType
      <4> QED
        BY <1>3, <4>2
    <3> QED
      BY <3>1, <3>2
  <2>3. bot' = "nonce-skip" => nonce' <= 1
    BY <1>1, <1>2, <1>3, <1>4 DEF BotInv, CountInv, Proper, Counted, CallType
  <2>4. submitted_once' => cached' # {}
    BY <1>2, <1>4 DEF BotInv, CountInv, Proper
  <2> QED
    BY <1>7, <2>1, <2>2, <2>3, <2>4 DEF CountInv
<1>11. SyncInv'
  <2> SUFFICES ASSUME losses' = 0
               PROVE (~Owed' => nonce' = Expected') /\ (Owed' => nonce' = Expected' - 1)
    BY <1>2 DEF SyncInv
  <2>1. losses = 0 /\ answer # "error"
        /\ (~Settles(c) => nonce = Expected) /\ (Settles(c) => nonce = Expected - 1)
    BY <1>5 DEF BotInv, SyncInv
  <2>2. CASE Settles(c)
    <3>1. Counted(c, answer) /\ ~Owed'
      BY <1>1, <1>6, <1>8, <1>9, <2>2 DEF Settles, Counted, Met, CallType
    <3>2. nonce' = nonce + 1 /\ Expected' = Expected /\ nonce = Expected - 1
      BY <1>2, <1>6, <2>1, <2>2, <3>1
    <3> QED
      BY <1>3, <3>1, <3>2
  <2>3. CASE Opens(c)
    <3>1. nonce' = nonce /\ nonce = Expected
      BY <1>9, <2>1, <2>3
    <3>2. CASE answer = "successful"
      <4>1. Owed'
        BY <1>8, <1>9, <2>3, <3>2
      <4> QED
        BY <1>3, <3>1, <3>2, <4>1
    <3>3. CASE answer # "successful"
      <4>1. ~Owed'
        BY <1>8, <1>9, <2>3, <3>3
      <4> QED
        BY <3>1, <3>3, <4>1
    <3> QED
      BY <3>2, <3>3
  <2>4. CASE ~Settles(c) /\ ~Opens(c)
    <3>1. c.expect = "reject" /\ c.counts = "no" => answer # "successful"
      <4> SUFFICES ASSUME c.expect = "reject", c.counts = "no", answer = "successful"
                   PROVE FALSE
        OBVIOUS
      <4>1. c.signed /\ r.nonce = Expected /\ nonce = Expected
        BY <1>4, <2>1, <2>4
      <4>2. ~(c.nonce = "cached" /\ submitted_once)
        BY <1>3, <1>4, <4>1 DEF BotInv, CountInv
      <4>3. c.nonce # "skip"
        BY <1>3, <1>4, <4>1 DEF BotInv, CountInv, Proper
      <4> QED
        BY <1>4, <4>1, <4>2, <4>3 DEF Proper
    <3>2. Counted(c, answer) <=> answer = "successful"
      BY <1>1, <1>4, <2>4, <3>1 DEF Counted, Met, Settles, Opens, Proper, CallType
    <3> QED
      BY <1>2, <1>3, <1>8, <2>1, <2>4, <3>2
  <2> QED
    BY <2>2, <2>3, <2>4
<1>12. StepInv'
  <2>1. \A i \in 1 .. Len(todo) : Proper(todo[i]) /\ todo[i].expect # "anything"
    BY DEF BotInv, StepInv
  <2>2. \A x \in CallType : Proper(x) /\ x.expect # "anything" => Proper(x)'
    BY <1>2 DEF Proper
  <2>3. \A i \in 1 .. Len(todo') : Proper(todo[i])' /\ todo'[i].expect # "anything"
    <3>1. CASE met
      <4>1. \A i \in 1 .. Len(todo) : todo[i] \in CallType
        BY <1>1
      <4>2. todo' = todo
        BY <1>2, <3>1
      <4> QED
        BY <2>1, <2>2, <4>1, <4>2
    <3>2. CASE ~met
      BY <1>2, <3>2
    <3> QED
      BY <3>1, <3>2
  <2>4. Len(todo') \in {0, 1} /\ (Len(todo') = 1 => ~Opens(todo'[1]))
    BY <1>1, <1>2 DEF BotInv, StepInv
  <2> QED
    BY <1>2, <2>3, <2>4 DEF StepInv
<1>13. RequestInv'
  BY <1>2 DEF RequestInv
<1>14. BotTypes'
  <2>1. steps' \in Nat /\ submitted_once' \in BOOLEAN /\ todo' \in Seq(CallType)
    BY <1>1, <1>2, BotAssumption DEF BotInv, BotTypes, BotAssumption
  <2>2. Len(todo') <= 2
    <3>1. CASE met
      <4>1. todo' = todo
        BY <1>2, <3>1
      <4> QED
        BY <4>1 DEF BotInv, BotTypes
    <3>2. CASE ~met
      BY <1>2, <3>2
    <3> QED
      BY <3>1, <3>2
  <2>3. cached' = {} \/ \E n \in Nat : cached' = {n}
    BY <1>2 DEF BotInv, BotTypes
  <2>4. bot' \in BotKinds
    BY <1>2 DEF BotInv, BotTypes
  <2> QED
    BY <1>2, <1>7, <2>1, <2>2, <2>3, <2>4 DEF BotTypes
<1>15. Lags => Lags'
  <2> SUFFICES ASSUME Lags PROVE Lags'
    OBVIOUS
  <2>1. nonce < Expected /\ ~Settles(c)
    BY <1>5 DEF Lags
  <2>2. ~Owed'
    <3> SUFFICES ASSUME Owed' PROVE FALSE
      OBVIOUS
    <3>1. Opens(c) /\ answer = "successful"
      BY <1>8, <1>9
    <3>2. r.nonce = nonce /\ r.nonce = Expected
      BY <1>4, <3>1 DEF Proper
    <3> QED
      BY <1>3, <2>1, <3>2
  <2>3. nonce' < Expected'
    <3>1. Counted(c, answer) => answer = "successful"
      BY <1>1, <1>4, <2>1 DEF Counted, Met, Settles, Proper, CallType
    <3> QED
      BY <1>2, <1>3, <2>1, <3>1
  <2> QED
    BY <2>2, <2>3 DEF Lags
<1> QED
  BY <1>10, <1>11, <1>12, <1>13, <1>14, <1>15 DEF BotInv

-----------------------------------------------------------------------------
(* The steps *)

(* A new step of one call, which is counted if it is successful or has a   *)
(* reason to be rejected.                                                  *)
LEMMA OneCall ==
  ASSUME NEW a \in CallType, todo' = <<a>>, request' = {}, Proper(a)',
         a.expect # "anything", ~Settles(a), ~Opens(a)
  PROVE  todo' \in Seq(CallType) /\ Len(todo') <= 2 /\ StepInv' /\ ~Owed'
<1>1. Len(todo') = 1 /\ todo'[1] = a
  OBVIOUS
<1>2. \A i \in 1 .. Len(todo') : Proper(todo[i])' /\ todo'[i].expect # "anything"
  BY <1>1
<1> QED
  BY <1>1, <1>2 DEF StepInv, Owed

(* A new step of two.                                                      *)
LEMMA TwoCalls ==
  ASSUME NEW a \in CallType, NEW b \in CallType, todo' = <<a, b>>, request' = {},
         Proper(a)', Proper(b)', a.expect # "anything", b.expect # "anything",
         ~Settles(a), ~Opens(b), Settles(b) <=> Opens(a)
  PROVE  todo' \in Seq(CallType) /\ Len(todo') <= 2 /\ StepInv' /\ ~Owed'
<1>1. Len(todo') = 2 /\ todo'[1] = a /\ todo'[2] = b
  OBVIOUS
<1>2. \A i \in 1 .. Len(todo') : Proper(todo[i])' /\ todo'[i].expect # "anything"
  BY <1>1
<1> QED
  BY <1>1, <1>2 DEF StepInv, Owed

(* The scripts, read by what they ask for.                                 *)
LEMMA BeginStepKeeps ==
  ASSUME BotInv, BeginStep PROVE BotInv' /\ (Lags => Lags')
<1>1. /\ todo = <<>> /\ request = {} /\ todo' \in Script /\ steps' = steps + 1
      /\ cached' = IF cached = {} THEN {nonce} ELSE cached
      /\ bot' = bot /\ nonce' = nonce /\ submitted_once' = submitted_once
      /\ request' = {} /\ account_nonce' = account_nonce /\ pool_nonces' = pool_nonces
      /\ losses' = losses
  BY DEF BeginStep, faults
<1>2. cached' # {} /\ \E n \in Nat : cached' = {n}
  BY <1>1 DEF BotInv, BotTypes
<1>3. ~Owed /\ Expected' = Expected
  BY <1>1 DEF Owed, Expected
<1>4. todo' \in Seq(CallType) /\ Len(todo') <= 2 /\ StepInv' /\ ~Owed'
  <2> USE DEF Call, CallType, Proper, Settles, Opens
  <2>1. CASE bot = "honest"
    <3>1. PICK a \in CallType : a = Call("ctx", TRUE, "accept", "send")
      OBVIOUS
    <3>2. todo' = <<a, a>>
      BY <1>1, <2>1, <3>1 DEF Script
    <3> QED
      BY <1>1, <2>1, <3>1, <3>2, TwoCalls
  <2>2. CASE bot = "past-auction"
    <3>1. PICK a \in CallType : a = Call("ctx", TRUE, "reject", "send")
      OBVIOUS
    <3>2. todo' = <<a, a>>
      BY <1>1, <2>2, <3>1 DEF Script
    <3> QED
      BY <1>1, <2>2, <3>1, <3>2, TwoCalls
  <2>3. CASE bot = "double-spend"
    <3>1. PICK a \in CallType : a = Call("ctx", TRUE, "accept", "no")
      OBVIOUS
    <3>2. PICK b \in CallType : b = Call("ctx", TRUE, "reject", "step")
      OBVIOUS
    <3>3. todo' = <<a, b>>
      BY <1>1, <2>3, <3>1, <3>2 DEF Script
    <3> QED
      BY <1>1, <2>3, <3>1, <3>2, <3>3, TwoCalls
  <2>4. CASE bot = "replay" /\ submitted_once
    <3>1. PICK a \in CallType : a = Call("cached", TRUE, "reject", "no")
      OBVIOUS
    <3>2. todo' = <<a>>
      BY <1>1, <2>4, <3>1 DEF Script
    <3> QED
      BY <1>1, <1>2, <2>4, <3>1, <3>2, OneCall
  <2>5. CASE bot = "replay" /\ ~submitted_once
    <3>1. PICK a \in CallType : a = Call("cached", TRUE, "accept", "step")
      OBVIOUS
    <3>2. todo' = <<a>>
      BY <1>1, <2>5, <3>1 DEF Script
    <3> QED
      BY <1>1, <1>2, <2>5, <3>1, <3>2, OneCall
  <2>6. CASE bot = "byzantine"
    <3>1. PICK a \in CallType : a = Call("ctx", FALSE, "reject", "no")
      OBVIOUS
    <3>2. PICK b \in CallType : b = Call("ctx", TRUE, "accept", "step")
      OBVIOUS
    <3>3. todo' = <<a>> \/ todo' = <<b>>
      BY <1>1, <2>6, <3>1, <3>2 DEF Script
    <3>4. CASE todo' = <<a>>
      BY <1>1, <2>6, <3>1, <3>4, OneCall
    <3>5. CASE todo' = <<b>>
      BY <1>1, <2>6, <3>2, <3>5, OneCall
    <3> QED
      BY <3>3, <3>4, <3>5
  <2>7. CASE bot = "nonce-skip"
    <3>1. PICK a \in CallType : a = Call("skip", TRUE, "reject", "no")
      OBVIOUS
    <3>2. todo' = <<a>>
      BY <1>1, <2>7, <3>1 DEF Script
    <3> QED
      BY <1>1, <2>7, <3>1, <3>2, OneCall
  <2> QED
    BY <2>1, <2>2, <2>3, <2>4, <2>5, <2>6, <2>7 DEF BotInv, BotTypes, BotKinds
<1>5. BotTypes'
  BY <1>1, <1>2, <1>4 DEF BotInv, BotTypes
<1>6. CountInv'
  <2>1. submitted_once => cached' = cached
    BY <1>1 DEF BotInv, CountInv
  <2> QED
    BY <1>1, <1>3, <1>4, <2>1 DEF BotInv, CountInv
<1>7. SyncInv' /\ RequestInv'
  BY <1>1, <1>3, <1>4 DEF BotInv, SyncInv, RequestInv
<1>8. Lags => Lags'
  BY <1>1, <1>3, <1>4 DEF Lags
<1> QED
  BY <1>4, <1>5, <1>6, <1>7, <1>8 DEF BotInv

(* A request is signed with what the bot counts at that time.              *)
LEMMA SendKeeps ==
  ASSUME BotInv, Send PROVE BotInv' /\ (Lags => Lags')
<1>1. /\ todo # <<>> /\ request = {} /\ todo' = Tail(todo)
      /\ request' = {[call |-> Head(todo), nonce |-> SignedNonce(Head(todo)), at |-> "sent"]}
      /\ steps' = steps /\ cached' = cached
      /\ bot' = bot /\ nonce' = nonce /\ submitted_once' = submitted_once
      /\ account_nonce' = account_nonce /\ pool_nonces' = pool_nonces /\ losses' = losses
  BY DEF Send, faults
<1>2. PICK r : r = [call |-> Head(todo), nonce |-> SignedNonce(Head(todo)), at |-> "sent"]
  OBVIOUS
<1>3. PICK c : c = Head(todo)
  OBVIOUS
<1>4. /\ c \in CallType /\ c = todo[1] /\ Len(todo) \in {1, 2} /\ todo \in Seq(CallType)
      /\ Proper(c)
  <2>1. todo \in Seq(CallType) /\ Len(todo) \in Nat /\ Len(todo) <= 2 /\ Len(todo) # 0
    BY <1>1 DEF BotInv, BotTypes
  <2>2. \A k \in Nat : k <= 2 /\ k # 0 => k \in {1, 2}
    OBVIOUS
  <2>3. Len(todo) \in {1, 2}
    BY <2>1, <2>2
  <2>4. c \in CallType /\ c = todo[1] /\ 1 \in 1 .. Len(todo)
    BY <1>3, <2>1, <2>3
  <2> QED
    BY <2>1, <2>3, <2>4 DEF BotInv, StepInv
<1>5. /\ r.call = c /\ r.at = "sent" /\ r.nonce \in Nat
      /\ c.nonce = "ctx" => r.nonce = nonce
      /\ c.nonce = "cached" => cached = {r.nonce}
      /\ c.nonce = "skip" => r.nonce >= 90
  <2>1. r.call = c /\ r.at = "sent" /\ r.nonce = SignedNonce(c)
    BY <1>2, <1>3
  <2>2. CASE c.nonce = "ctx"
    BY <2>1, <2>2 DEF SignedNonce, BotInv, BotTypes
  <2>3. CASE c.nonce = "cached"
    <3>1. PICK n \in Nat : cached = {n}
      BY <1>4, <2>3 DEF Proper, BotInv, BotTypes
    <3>2. SignedNonce(c) = n
      BY <2>3, <3>1 DEF SignedNonce
    <3> QED
      BY <2>1, <2>3, <3>1, <3>2
  <2>4. CASE c.nonce = "skip"
    <3>1. SignedNonce(c) = 90 + 10 * steps /\ steps \in Nat
      BY <2>4 DEF SignedNonce, BotInv, BotTypes
    <3> QED
      BY <2>1, <2>4, <3>1
  <2> QED
    BY <1>4, <2>2, <2>3, <2>4, <2>1 DEF CallType
<1>6. /\ todo' \in Seq(CallType) /\ Len(todo') = Len(todo) - 1
      /\ Len(todo) = 2 => todo'[1] = todo[2]
  BY <1>1, <1>4
<1>7. (Owed' <=> Settles(c)) /\ (Owed <=> Settles(c)) /\ Expected' = Expected
  BY <1>1, <1>2, <1>4, <1>5 DEF Owed, Expected
<1>8. \A x \in CallType : Proper(x) => Proper(x)'
  BY <1>1 DEF Proper
<1>9. BotTypes'
  <2>1. r \in RequestType
    BY <1>2, <1>3, <1>4, <1>5 DEF RequestType
  <2>2. Len(todo') <= 2
    BY <1>4, <1>6
  <2> QED
    BY <1>1, <1>2, <1>6, <2>1, <2>2 DEF BotInv, BotTypes
<1>10. StepInv'
  <2>1. \A i \in 1 .. Len(todo) : todo[i] \in CallType /\ Proper(todo[i])
          /\ (todo[i].expect = "anything" => Len(todo) = 1)
    BY <1>4 DEF BotInv, StepInv
  <2>2. CASE Len(todo) = 1
    <3>1. ~Opens(c)
      BY <1>4, <2>2 DEF BotInv, StepInv
    <3>2. Len(todo') = 0 /\ request' = {r}
      BY <1>1, <1>2, <1>6, <2>2
    <3> QED
      BY <1>5, <3>1, <3>2 DEF StepInv
  <2>3. CASE Len(todo) = 2
    <3>1. Len(todo') = 1 /\ todo'[1] = todo[2]
      BY <1>6, <2>3
    <3>2. (Settles(todo[2]) <=> Opens(c)) /\ ~Opens(todo[2])
      BY <1>4, <2>3 DEF BotInv, StepInv
    <3>3. todo[2] \in CallType /\ Proper(todo[2]) /\ todo[2].expect # "anything"
      BY <2>1, <2>3
    <3>4. PICK x \in CallType : x = todo[2]
      BY <3>3
    <3>5. Proper(x)' /\ x.expect # "anything" /\ todo'[1] = x
      BY <1>8, <3>1, <3>3, <3>4
    <3>6. \A i \in 1 .. Len(todo') : Proper(todo[i])' /\ todo'[i].expect # "anything"
      BY <3>1, <3>5
    <3>7. request' = {r} /\ (Opens(r.call) <=> Settles(todo'[1])) /\ ~Opens(todo'[1])
      BY <1>1, <1>2, <1>5, <3>1, <3>2
    <3> QED
      BY <3>1, <3>6, <3>7 DEF StepInv
  <2> QED
    BY <1>4, <2>2, <2>3
<1>11. RequestInv'
  <2>1. Proper(c)' /\ nonce' = nonce /\ cached' = cached
    BY <1>1, <1>4, <1>8
  <2>2. request' = {r}
    BY <1>1, <1>2
  <2> QED
    BY <1>5, <2>1, <2>2 DEF RequestInv
<1>12. CountInv'
  BY <1>1, <1>7 DEF BotInv, CountInv
<1>13. SyncInv'
  BY <1>1, <1>2, <1>5, <1>7 DEF BotInv, SyncInv
<1>14. Lags => Lags'
  BY <1>1, <1>7 DEF Lags
<1> QED
  BY <1>9, <1>10, <1>11, <1>12, <1>13, <1>14 DEF BotInv

(* The pool takes a request.                                               *)
LEMMA AdmitKeeps ==
  ASSUME BotInv, NEW r \in request, Admit(r) PROVE BotInv' /\ (Lags => Lags')
<1>1. PICK q : q = [r EXCEPT !.at = "pending"]
  OBVIOUS
<1>2. /\ r.at = "sent" /\ r.call.signed
      /\ request' = {q} /\ pool_nonces' = pool_nonces \cup {r.nonce}
      /\ bot' = bot /\ nonce' = nonce /\ cached' = cached /\ steps' = steps
      /\ submitted_once' = submitted_once /\ todo' = todo
      /\ account_nonce' = account_nonce /\ losses' = losses
  BY <1>1 DEF Admit, client, faults
<1>3. r \in RequestType /\ request = {r}
  BY DEF BotInv, BotTypes
<1>4. q \in RequestType /\ q.call = r.call /\ q.nonce = r.nonce /\ q.at = "pending"
  BY <1>1, <1>3 DEF RequestType
<1>5. Owed' = Owed /\ Expected' = Expected
  BY <1>2, <1>3, <1>4 DEF Owed, Expected
<1>6. BotTypes'
  <2>1. r.nonce \in Nat
    BY <1>3 DEF RequestType
  <2> QED
    BY <1>2, <1>4, <2>1 DEF BotInv, BotTypes
<1>7. StepInv'
  BY <1>2, <1>3, <1>4 DEF BotInv, StepInv, Proper
<1>8. RequestInv'
  BY <1>2, <1>3, <1>4 DEF BotInv, RequestInv, Proper
<1>9. CountInv'
  BY <1>2, <1>5 DEF BotInv, CountInv
<1>10. SyncInv'
  BY <1>2, <1>3, <1>4, <1>5 DEF BotInv, SyncInv
<1>11. Lags => Lags'
  BY <1>2, <1>5 DEF Lags
<1> QED
  BY <1>6, <1>7, <1>8, <1>9, <1>10, <1>11 DEF BotInv

(* Whoever answers without having executed anything.                       *)
LEMMA FailureKeeps ==
  ASSUME BotAssumption, BotInv, NEW r \in request, NEW answer \in {"failed", "error"},
         Answered(r.call, answer), account_nonce' = account_nonce,
         losses' \in Nat, losses' = 0 => losses = 0 /\ answer # "error",
         pool_nonces' \subseteq pool_nonces, losses' = 0 => pool_nonces' = {}
  PROVE  BotInv' /\ (Lags => Lags')
<1>1. answer \in {"successful", "failed", "error"} /\ answer # "successful"
  OBVIOUS
<1>2. Expected' = Expected
  BY DEF Expected
<1>3. account_nonce' \in Nat \cup {-1} /\ pool_nonces' \subseteq Nat
  BY DEF BotInv, BotTypes
<1> QED
  BY <1>1, <1>2, <1>3, AnswerKeeps

(* While no answer is lost, a request that is not pending leaves the pool  *)
(* empty.                                                                  *)
LEMMA NothingPending ==
  ASSUME BotInv, NEW r \in request, r.at = "sent", losses = 0 PROVE pool_nonces = {}
  BY DEF BotInv, BotTypes, SyncInv

(* What leaves the pool unnoticed has lost its answer.                     *)
LEMMA UnnoticedKeeps ==
  ASSUME BotInv, NEW n \in pool_nonces, ~ \E r \in request : r.at = "pending" /\ r.nonce = n,
         UNCHANGED <<client, request, losses>>, pool_nonces' = pool_nonces \ {n},
         account_nonce' \in Nat \cup {-1}, Expected' >= Expected
  PROVE  BotInv' /\ (Lags => Lags')
<1>1. losses # 0 /\ losses \in Nat
  BY DEF BotInv, SyncInv, BotTypes
<1>2. /\ bot' = bot /\ nonce' = nonce /\ cached' = cached /\ steps' = steps
      /\ submitted_once' = submitted_once /\ todo' = todo
      /\ request' = request /\ losses' = losses
  BY DEF client
<1>3. Owed' = Owed
  BY <1>2 DEF Owed
<1>4. BotTypes'
  BY <1>2 DEF BotInv, BotTypes
<1>5. StepInv' /\ RequestInv'
  BY <1>2 DEF BotInv, StepInv, RequestInv, Proper
<1>6. CountInv'
  <2>1. Expected \in Nat /\ Expected' \in Nat
    BY ExpectedIsNat DEF BotInv, BotTypes, Expected
  <2>2. nonce' <= Expected' /\ (Owed' => nonce' < Expected')
    BY <1>2, <1>3, <2>1 DEF BotInv, BotTypes, CountInv
  <2>3. \A m \in cached : m \in Nat
    BY DEF BotInv, BotTypes
  <2>4. submitted_once' => cached' # {} /\ \A m \in cached' : m < Expected'
    BY <1>2, <2>1, <2>3 DEF BotInv, CountInv
  <2> QED
    BY <1>2, <2>2, <2>4 DEF BotInv, CountInv
<1>7. SyncInv'
  BY <1>1, <1>2 DEF SyncInv
<1>8. Lags => Lags'
  <2>1. Expected \in Nat /\ Expected' \in Nat /\ nonce \in Nat
    BY ExpectedIsNat DEF BotInv, BotTypes, Expected
  <2> QED
    BY <1>2, <1>3, <2>1 DEF Lags
<1> QED
  BY <1>4, <1>5, <1>6, <1>7, <1>8 DEF BotInv

(* A transaction that is pending is executed, with success if its nonce is *)
(* the one that is expected.                                               *)
LEMMA ExecuteKeeps ==
  ASSUME BotAssumption, BotInv, NEW n \in pool_nonces, Execute(n)
  PROVE  BotInv' /\ (Lags => Lags')
<1> DEFINE ok == n = account_nonce \/ (account_nonce = -1 /\ n = 0)
<1>1. n \in Nat /\ account_nonce \in Nat \cup {-1} /\ losses \in Nat /\ Expected \in Nat
      /\ pool_nonces \subseteq Nat
  BY ExpectedIsNat DEF BotInv, BotTypes
<1>2. /\ pool_nonces' = pool_nonces \ {n} /\ losses' = losses
      /\ account_nonce' = IF ok THEN n + 1 ELSE account_nonce
  BY DEF Execute, faults
<1>3. /\ account_nonce' \in Nat \cup {-1}
      /\ ok => n = Expected /\ Expected' = Expected + 1
      /\ ~ok => Expected' = Expected
  BY <1>1, <1>2 DEF Expected
<1>4. ASSUME NEW r \in request, r.at = "pending", r.nonce = n PROVE BotInv' /\ (Lags => Lags')
  <2>1. request = {r}
    BY DEF BotInv, BotTypes
  <2>2. PICK answer \in {"successful", "failed", "error"} :
          answer = (IF ok THEN "successful" ELSE "failed")
    OBVIOUS
  <2>3. Answered(r.call, answer)
    BY <1>4, <2>1, <2>2 DEF Execute
  <2>4. losses' = 0 => pool_nonces' = {}
    BY <1>2, <1>4, <2>1 DEF BotInv, SyncInv
  <2>5. answer # "error" /\ (answer = "successful" <=> ok)
    BY <2>2
  <2>6. answer = "successful" => r.nonce = Expected /\ Expected' = Expected + 1
    BY <1>3, <1>4, <2>5
  <2>7. answer # "successful" => Expected' = Expected
    BY <1>3, <2>5
  <2>8. pool_nonces' \subseteq Nat /\ losses' \in Nat
    BY <1>1, <1>2
  <2> QED
    BY <1>2, <1>3, <1>4, <2>3, <2>4, <2>5, <2>6, <2>7, <2>8, AnswerKeeps
<1>5. ASSUME ~ \E r \in request : r.at = "pending" /\ r.nonce = n
      PROVE BotInv' /\ (Lags => Lags')
  <2>1. UNCHANGED <<client, request, losses>>
    BY <1>2, <1>5 DEF Execute
  <2>2. Expected' >= Expected
    BY <1>1, <1>3
  <2> QED
    BY <1>2, <1>3, <1>5, <2>1, <2>2, UnnoticedKeeps
<1> QED
  BY <1>4, <1>5

(* A transaction that is pending goes with its block.                      *)
LEMMA DiscardKeeps ==
  ASSUME BotAssumption, BotInv, NEW n \in pool_nonces, Discard(n)
  PROVE  BotInv' /\ (Lags => Lags')
<1>1. /\ pool_nonces' = pool_nonces \ {n} /\ losses' = losses /\ losses \in Nat
      /\ account_nonce' = account_nonce /\ account_nonce \in Nat \cup {-1}
  BY DEF Discard, BotInv, BotTypes
<1>2. ASSUME NEW r \in request, r.at = "pending", r.nonce = n PROVE BotInv' /\ (Lags => Lags')
  <2>1. request = {r}
    BY DEF BotInv, BotTypes
  <2>2. Answered(r.call, "failed")
    BY <1>2, <2>1 DEF Discard
  <2>3. losses' = 0 => pool_nonces' = {}
    BY <1>1, <1>2, <2>1 DEF BotInv, SyncInv
  <2> QED
    BY <1>1, <2>2, <2>3, FailureKeeps
<1>3. ASSUME ~ \E r \in request : r.at = "pending" /\ r.nonce = n
      PROVE BotInv' /\ (Lags => Lags')
  <2>1. UNCHANGED <<client, request, losses>>
    BY <1>1, <1>3 DEF Discard
  <2>2. Expected' >= Expected
    BY <1>1, ExpectedIsNat DEF Expected
  <2> QED
    BY <1>1, <1>3, <2>1, <2>2, UnnoticedKeeps
<1> QED
  BY <1>2, <1>3

(* Every step keeps the invariant.                                         *)
LEMMA BotStepPreserves ==
  ASSUME BotAssumption, BotInv, [BotNext]_bot_vars PROVE BotInv' /\ (Lags => Lags')
<1>1. CASE BeginStep
  BY <1>1, BeginStepKeeps
<1>2. CASE Send
  BY <1>2, SendKeeps
<1>3. ASSUME NEW r \in request, Admit(r) PROVE BotInv' /\ (Lags => Lags')
  BY <1>3, AdmitKeeps
<1>4. ASSUME NEW r \in request, Refuse(r) \/ LimitRate(r) PROVE BotInv' /\ (Lags => Lags')
  <2>1. /\ r.at = "sent" /\ Answered(r.call, "failed") /\ account_nonce' = account_nonce
        /\ pool_nonces' = pool_nonces /\ losses' = losses /\ losses \in Nat
    BY <1>4 DEF Refuse, LimitRate, faults, BotInv, BotTypes
  <2>2. losses' = 0 => pool_nonces' = {}
    BY <2>1, NothingPending
  <2> QED
    BY <2>1, <2>2, FailureKeeps
<1>5. ASSUME NEW r \in request, LoseAnswer(r) PROVE BotInv' /\ (Lags => Lags')
  <2>1. /\ Answered(r.call, "error") /\ account_nonce' = account_nonce
        /\ pool_nonces' = pool_nonces /\ losses' = losses + 1 /\ losses \in Nat
    BY <1>5 DEF LoseAnswer, BotInv, BotTypes
  <2>2. losses' \in Nat /\ losses' # 0
    BY <2>1
  <2> QED
    BY <2>1, <2>2, FailureKeeps
<1>6. ASSUME NEW n \in pool_nonces, Execute(n) PROVE BotInv' /\ (Lags => Lags')
  BY <1>6, ExecuteKeeps
<1>7. ASSUME NEW n \in pool_nonces, Discard(n) PROVE BotInv' /\ (Lags => Lags')
  BY <1>7, DiscardKeeps
<1>8. CASE UNCHANGED bot_vars
  <2>1. /\ bot' = bot /\ nonce' = nonce /\ cached' = cached /\ steps' = steps
        /\ submitted_once' = submitted_once /\ todo' = todo /\ request' = request
        /\ account_nonce' = account_nonce /\ pool_nonces' = pool_nonces /\ losses' = losses
    BY <1>8 DEF bot_vars, client, faults
  <2>2. Expected' = Expected /\ Owed' = Owed
    BY <2>1 DEF Expected, Owed
  <2>3. BotTypes' /\ StepInv' /\ RequestInv'
    BY <2>1 DEF BotInv, BotTypes, StepInv, RequestInv, Proper
  <2>4. CountInv' /\ SyncInv'
    BY <2>1, <2>2 DEF BotInv, CountInv, SyncInv
  <2> QED
    BY <2>1, <2>2, <2>3, <2>4 DEF BotInv, Lags
<1> QED
  BY <1>1, <1>2, <1>3, <1>4, <1>5, <1>6, <1>7, <1>8 DEF BotNext

(* The invariant holds in all behaviours.                                  *)
THEOREM BotInvariance == BotSpec => []BotInv
<1>1. BotInit => BotInv
  BY BotInitEstablishes, BotAssumption
<1>2. BotInv /\ [BotNext]_bot_vars => BotInv'
  BY BotStepPreserves, BotAssumption
<1> QED
  BY <1>1, <1>2, PTL DEF BotSpec

(* For every number of steps, refusals, lost blocks and lost answers, no   *)
(* bot signs with a nonce that its account does not have yet.              *)
THEOREM BotsAreNeverAhead == BotSpec => []NeverAhead
<1>1. BotInv => NeverAhead
  BY DEF BotInv, CountInv, RequestInv, NeverAhead
<1> QED
  BY <1>1, BotInvariance, PTL

(* As long as none of its answers was lost, a bot that waits for nothing   *)
(* counts as its account does.                                             *)
THEOREM BotsStayInStep == BotSpec => []InStep
<1>1. BotInv => InStep
  BY DEF BotInv, SyncInv, Owed, InStep
<1> QED
  BY <1>1, BotInvariance, PTL

(* After one lost answer it may be behind, and then it stays behind for    *)
(* good: no answer that it can still get brings it forward by more than    *)
(* its account.                                                            *)
THEOREM BotsStayBehind == BotSpec => BehindForGood
<1>1. BotInv /\ Lags /\ [BotNext]_bot_vars => Lags'
  BY BotStepPreserves, BotAssumption
<1>2. Behind => Lags
  BY DEF Behind, Lags, Owed
<1>3. Lags => nonce < Expected
  BY DEF Lags
<1> QED
  BY <1>1, <1>2, <1>3, BotInvariance, PTL DEF BotSpec, BehindForGood

-----------------------------------------------------------------------------
(* The node's identity *)

(* The strengthening: the program writes to the file only where there was  *)
(* no key in it, and whoever was known by a key still has it in the file.  *)
PeerInv ==
  /\ PeerTypeOK
  /\ RunsWithSavedKey
  /\ at \in {"Mining", "Saving", "Writing"} => file \notin Keypair
  /\ known # NoKeypair => file = known

(* The invariant holds at the start, whatever the file is. *)
LEMMA PeerInitEstablishes == PeerInit => PeerInv
  BY DEF PeerInit, PeerInv, PeerTypeOK, RunsWithSavedKey

(* Every step keeps it. *)
LEMMA PeerStepPreserves == PeerInv /\ [PeerNext]_peer_vars => PeerInv'
<1> SUFFICES ASSUME PeerInv, [PeerNext]_peer_vars PROVE PeerInv'
  OBVIOUS
<1> USE MinedAssumption, NoKeypairAssumption DEF PeerInv, PeerTypeOK, RunsWithSavedKey
<1>1. CASE GetKey
  BY <1>1 DEF GetKey, VerifyPeerId
<1>2. ASSUME NEW k \in Keypair, MineKey(k) PROVE PeerInv'
  BY <1>2 DEF MineKey, VerifyPeerId
<1>3. CASE CreateFile
  BY <1>3 DEF CreateFile
<1>4. CASE WriteKey
  BY <1>4 DEF WriteKey
<1>5. CASE End
  BY <1>5 DEF End
<1>6. CASE RemoveFile
  BY <1>6 DEF RemoveFile
<1>7. CASE UNCHANGED peer_vars
  BY <1>7 DEF peer_vars
<1> QED
  BY <1>1, <1>2, <1>3, <1>4, <1>5, <1>6, <1>7 DEF PeerNext

LEMMA PeerInvariance == PeerSpec => []PeerInv
  BY PeerInitEstablishes, PeerStepPreserves, PTL DEF PeerSpec

(* Whatever key the program saves or uses has the leading zero bits that   *)
(* verify_peer_id() asks for.                                              *)
THEOREM PeerTypeInvariance == PeerSpec => []PeerTypeOK
<1>1. PeerInv => PeerTypeOK
  BY DEF PeerInv
<1> QED
  BY <1>1, PeerInvariance, PTL

(* A node that runs has its key in the file, after any number of crashes.  *)
THEOREM RunningNodesAreSaved == PeerSpec => []RunsWithSavedKey
<1>1. PeerInv => RunsWithSavedKey
  BY DEF PeerInv
<1> QED
  BY <1>1, PeerInvariance, PTL

(* From one state of the invariant to the next the identity stays: if the  *)
(* node was and is known, both are the key in the file, and what the step  *)
(* writes there is not over a key.                                         *)
LEMMA StepKeepsIdentity ==
  PeerInv /\ [PeerNext]_peer_vars =>
    [known # NoKeypair /\ known' # NoKeypair => known' = known]_peer_vars
<1> SUFFICES ASSUME PeerInv, PeerNext PROVE known # NoKeypair /\ known' # NoKeypair => known' = known
  BY DEF peer_vars
<1> USE MinedAssumption, NoKeypairAssumption DEF PeerInv, PeerTypeOK
<1>1. CASE GetKey
  BY <1>1 DEF GetKey
<1>2. CASE WriteKey
  BY <1>2 DEF WriteKey
<1>3. CASE UNCHANGED known
  BY <1>3
<1>4. CASE known' = NoKeypair
  BY <1>4
<1> QED
  BY <1>1, <1>2, <1>3, <1>4 DEF PeerNext, MineKey, CreateFile, End, RemoveFile

(* Unless its file is removed, a node comes back as itself.                *)
THEOREM IdentityIsKept == PeerSpec => IdentityKept
  BY PeerInvariance, StepKeepsIdentity, PTL DEF PeerSpec, IdentityKept

(* A step that changes a file with a key in it removes the file.           *)
LEMMA StepKeepsStoredKey ==
  PeerInv /\ [PeerNext]_peer_vars =>
    [(file \in Keypair /\ file' # file) => (file' = "Missing")]_peer_vars
<1> SUFFICES ASSUME PeerInv, PeerNext PROVE file \in Keypair /\ file' # file => file' = "Missing"
  BY DEF peer_vars
<1> USE DEF PeerInv
<1> QED
  BY DEF PeerNext, GetKey, MineKey, CreateFile, WriteKey, End, RemoveFile

(* No key in a file is ever written over, not even one that is refused.    *)
THEOREM StoredKeysAreKept == PeerSpec => StoredKeyKept
  BY PeerInvariance, StepKeepsStoredKey, PTL DEF PeerSpec, StoredKeyKept

-----------------------------------------------------------------------------
(* Positions *)

(* A set of natural numbers that is not empty has a least element. *)
LEMMA LeastElement ==
  ASSUME NEW D, D \subseteq Nat, D # {}
  PROVE  \E j \in D : \A i \in D : j <= i
<1> DEFINE R == OpToRel(<, Nat)
<1>1. IsWellFoundedOn(R, Nat)
  BY NatLessThanWellFounded
<1>2. \A i, j \in Nat : i < j => <<i, j>> \in R
  BY Zenon DEF OpToRel
<1> HIDE DEF R
<1>3. PICK j \in D : \A i \in D : <<i, j>> \notin R
  BY <1>1, WFMin, Zenon
<1>4. \A i \in D : ~(i < j)
  BY <1>2, <1>3, Zenon
<1> QED BY <1>4

(* Induction up to n over the members of a set. *)
LEMMA UpTo ==
  ASSUME NEW n \in Nat, NEW D, 0 \in D, \A i \in 1 .. n : i - 1 \in D => i \in D
  PROVE  \A i \in 0 .. n : i \in D
<1> DEFINE Out == {i \in 0 .. n : i \notin D}
<1> SUFFICES ASSUME Out # {} PROVE FALSE
  OBVIOUS
<1>1. PICK j \in Out : \A i \in Out : j <= i
  <2>1. Out \subseteq Nat /\ Out # {}
    OBVIOUS
  <2> HIDE DEF Out
  <2> QED BY <2>1, LeastElement
<1>2. j \in 1 .. n /\ j - 1 \in 0 .. n
  OBVIOUS
<1>3. j - 1 \in D
  BY <1>1, <1>2
<1> QED BY <1>2, <1>3

(* Max is the greatest member of a set, where there is one. *)
LEMMA MaxIs ==
  ASSUME NEW S, S \subseteq Nat, NEW m \in S, \A x \in S : m >= x
  PROVE  Max(S) = m
<1>1. Max(S) \in S /\ \A x \in S : Max(S) >= x
  BY DEF Max
<1>2. Max(S) \in Nat /\ m \in Nat /\ m >= Max(S) /\ Max(S) >= m
  BY <1>1
<1> QED BY <1>2

(* A set of positions that is not empty has a maximum. *)
LEMMA MaxUpTo ==
  ASSUME NEW n \in Nat, NEW S, S \subseteq 1 .. n, S # {}
  PROVE  Max(S) \in S /\ \A x \in S : Max(S) >= x
<1> DEFINE B == {b \in 0 .. n : \A x \in S : b >= x}
<1>1. PICK b \in B : \A c \in B : b <= c
  <2>1. B \subseteq Nat /\ n \in B
    OBVIOUS
  <2> HIDE DEF B
  <2> QED BY <2>1, LeastElement
<1>2. b \in S
  <2> SUFFICES ASSUME b \notin S PROVE FALSE
    OBVIOUS
  <2>1. \A x \in S : x \in 1 .. n /\ b >= x /\ b # x
    OBVIOUS
  <2>2. b \in 1 .. n
    <3>1. PICK x \in S : x \in 1 .. n /\ b >= x
      BY <2>1
    <3> QED BY <3>1
  <2>3. \A x \in S : b - 1 >= x
    BY <2>1, <2>2
  <2>4. b - 1 \in B
    BY <2>2, <2>3
  <2> QED BY <1>1, <2>2, <2>4
<1>3. \A x \in S : b >= x
  OBVIOUS
<1> QED BY <1>2, <1>3 DEF Max

(* The last of the positions up to i is i. *)
LEMMA MaxOfPrefix ==
  ASSUME NEW i \in Nat, NEW S \in SUBSET (1 .. i), i \in S
  PROVE  Max(S) = i
<1>1. S \subseteq Nat /\ \A x \in S : i >= x
  OBVIOUS
<1> QED BY <1>1, MaxIs

-----------------------------------------------------------------------------
(* Folds *)

(* The step of each of the folds, under one name. *)
See(fold, arg, view, t) ==
  CASE fold = "Available" -> SeeAvailable(view, t)
    [] fold = "Profile"   -> SeeProfile(arg, view, t)
    [] fold = "Bid"       -> SeeBid(arg, view, t)

(* The function a fold is defined by: the value for a set of positions.    *)
IsFold(f, fold, arg, base, T, k) ==
  f = [s \in SUBSET (1 .. k) |->
         IF s = {} THEN base ELSE See(fold, arg, f[s \ {Max(s)}], T[Max(s)])]

(* The values after each step. *)
IsWalk(w, fold, arg, base, T, n) ==
  /\ w[0] = base
  /\ \A i \in 1 .. n : w[i] = See(fold, arg, w[i - 1], T[i])

(* There is such a function for every sequence, by induction on its length. *)
LEMMA FoldExists ==
  ASSUME NEW fold, NEW arg, NEW base, NEW T, NEW n \in Nat
  PROVE  \E f : IsFold(f, fold, arg, base, T, n)
<1> DEFINE D == {k \in 0 .. n : \E f : IsFold(f, fold, arg, base, T, k)}
<1>1. 0 \in D
  <2> DEFINE g == [s \in {{}} |-> base]
  <2>1. SUBSET (1 .. 0) = {{}}
    OBVIOUS
  <2>2. IsFold(g, fold, arg, base, T, 0)
    BY <2>1 DEF IsFold
  <2> QED BY <2>2
<1>2. ASSUME NEW k \in 1 .. n, k - 1 \in D PROVE k \in D
  <2>1. PICK g : IsFold(g, fold, arg, base, T, k - 1)
    BY <1>2
  <2> DEFINE h == [s \in SUBSET (1 .. k) |->
                     IF k \in s THEN See(fold, arg, g[s \ {k}], T[k]) ELSE g[s]]
  <2>2. ASSUME NEW s \in SUBSET (1 .. k)
        PROVE  h[s] = IF s = {} THEN base
                      ELSE See(fold, arg, h[s \ {Max(s)}], T[Max(s)])
    <3>1. CASE k \in s
      <4>1. Max(s) = k
        BY <3>1, MaxOfPrefix
      <4>2. h[s \ {k}] = g[s \ {k}]
        OBVIOUS
      <4> QED BY <3>1, <4>1, <4>2
    <3>2. CASE k \notin s
      <4>1. s \in SUBSET (1 .. k - 1)
        BY <3>2
      <4>2. g[s] = IF s = {} THEN base
                   ELSE See(fold, arg, g[s \ {Max(s)}], T[Max(s)])
        BY <2>1, <4>1 DEF IsFold
      <4>3. h[s] = g[s] /\ h[s \ {Max(s)}] = g[s \ {Max(s)}]
        BY <3>2, <4>1
      <4> QED BY <4>2, <4>3
    <3> QED BY <3>1, <3>2
  <2>3. IsFold(h, fold, arg, base, T, k)
    BY <2>2 DEF IsFold
  <2> HIDE DEF h
  <2> QED BY <2>3
<1> HIDE DEF D
<1>3. n \in D
  BY <1>1, <1>2, UpTo
<1> QED BY <1>3 DEF D

(* Its values for the prefixes are those after each step. *)
LEMMA FoldSteps ==
  ASSUME NEW fold, NEW arg, NEW base, NEW T, NEW n \in Nat,
         NEW f, IsFold(f, fold, arg, base, T, n)
  PROVE  \E w : IsWalk(w, fold, arg, base, T, n) /\ w[n] = f[1 .. n]
<1> DEFINE w == [i \in 0 .. n |-> f[1 .. i]]
<1>1. w[0] = base
  BY DEF IsFold
<1>2. ASSUME NEW i \in 1 .. n PROVE w[i] = See(fold, arg, w[i - 1], T[i])
  <2>1. 1 .. i \in SUBSET (1 .. n) /\ i \in 1 .. i /\ (1 .. i) \ {i} = 1 .. i - 1
    OBVIOUS
  <2>2. Max(1 .. i) = i
    BY <2>1, MaxOfPrefix
  <2>3. f[1 .. i] = See(fold, arg, f[1 .. i - 1], T[i])
    BY <2>1, <2>2 DEF IsFold
  <2> QED BY <2>3
<1>3. w[n] = f[1 .. n]
  OBVIOUS
<1> HIDE DEF w
<1> QED BY <1>1, <1>2, <1>3 DEF IsWalk

(* The fold that makes the table of all auctions, as its values after each *)
(* transaction.                                                            *)
LEMMA AvailableSteps ==
  ASSUME NEW n \in Nat, NEW T, DOMAIN T = 1 .. n
  PROVE  \E w : /\ w[0] = Empty
                /\ \A i \in 1 .. n : w[i] = SeeAvailable(w[i - 1], T[i])
                /\ w[n] = FoldLeft(SeeAvailable, Empty, T)
<1> DEFINE P(g) == g = [s \in SUBSET (1 .. n) |->
             IF s = {} THEN Empty ELSE SeeAvailable(g[s \ {Max(s)}], T[Max(s)])]
           f == CHOOSE g : P(g)
<1>1. FoldLeft(SeeAvailable, Empty, T) = f[1 .. n]
  BY DEF FoldLeft, MapThenFoldSet
<1>2. \A g : P(g) <=> IsFold(g, "Available", {}, Empty, T, n)
  BY DEF IsFold, See
<1>3. P(f)
  <2> HIDE DEF P
  <2> QED BY <1>2, FoldExists
<1> HIDE DEF P, f
<1>4. PICK g : IsFold(g, "Available", {}, Empty, T, n) /\ g[1 .. n] = FoldLeft(SeeAvailable, Empty, T)
  BY <1>1, <1>2, <1>3
<1>5. \E w : IsWalk(w, "Available", {}, Empty, T, n) /\ w[n] = g[1 .. n]
  BY <1>4, FoldSteps
<1> QED BY <1>4, <1>5 DEF IsWalk, See

(* The folds whose step has a parameter, under a name. *)
ProfileFold(who, T) == FoldLeft(LAMBDA view, t : SeeProfile(who, view, t), Empty, T)
BidFold(id, base, T) == FoldLeft(LAMBDA acc, t : SeeBid(id, acc, t), base, T)

(* The same for the table of an account, *)
LEMMA ProfileSteps ==
  ASSUME NEW who, NEW n \in Nat, NEW T, DOMAIN T = 1 .. n
  PROVE  \E w : /\ w[0] = Empty
                /\ \A i \in 1 .. n : w[i] = SeeProfile(who, w[i - 1], T[i])
                /\ w[n] = ProfileFold(who, T)
<1> DEFINE P(g) == g = [s \in SUBSET (1 .. n) |->
             IF s = {} THEN Empty ELSE SeeProfile(who, g[s \ {Max(s)}], T[Max(s)])]
           f == CHOOSE g : P(g)
           Fold == ProfileFold(who, T)
<1>1. Fold = f[1 .. n]
  BY DEF ProfileFold, FoldLeft, MapThenFoldSet
<1>2. \A g : P(g) <=> IsFold(g, "Profile", who, Empty, T, n)
  BY DEF IsFold, See
<1>3. P(f)
  <2> HIDE DEF P
  <2> QED BY <1>2, FoldExists
<1> HIDE DEF P, f, Fold
<1>4. PICK g : IsFold(g, "Profile", who, Empty, T, n) /\ g[1 .. n] = Fold
  BY <1>1, <1>2, <1>3
<1>5. \E w : IsWalk(w, "Profile", who, Empty, T, n) /\ w[n] = g[1 .. n]
  BY <1>4, FoldSteps
<1> QED BY <1>4, <1>5 DEF IsWalk, See, Fold

(* and for the form that submits a bid. *)
LEMMA BidSteps ==
  ASSUME NEW id, NEW base, NEW n \in Nat, NEW T, DOMAIN T = 1 .. n
  PROVE  \E w : /\ w[0] = base
                /\ \A i \in 1 .. n : w[i] = SeeBid(id, w[i - 1], T[i])
                /\ w[n] = BidFold(id, base, T)
<1> DEFINE P(g) == g = [s \in SUBSET (1 .. n) |->
             IF s = {} THEN base ELSE SeeBid(id, g[s \ {Max(s)}], T[Max(s)])]
           f == CHOOSE g : P(g)
           Fold == BidFold(id, base, T)
<1>1. Fold = f[1 .. n]
  BY DEF BidFold, FoldLeft, MapThenFoldSet
<1>2. \A g : P(g) <=> IsFold(g, "Bid", id, base, T, n)
  BY DEF IsFold, See
<1>3. P(f)
  <2> HIDE DEF P
  <2> QED BY <1>2, FoldExists
<1> HIDE DEF P, f, Fold
<1>4. PICK g : IsFold(g, "Bid", id, base, T, n) /\ g[1 .. n] = Fold
  BY <1>1, <1>2, <1>3
<1>5. \E w : IsWalk(w, "Bid", id, base, T, n) /\ w[n] = g[1 .. n]
  BY <1>4, FoldSteps
<1> QED BY <1>4, <1>5 DEF IsWalk, See, Fold

-----------------------------------------------------------------------------
(* Blocks in a row *)

(* w[i] is the first i of the sequences bs, one after the other. *)
IsFlattening(w, bs) ==
  /\ w[0] = <<>>
  /\ \A i \in 1 .. Len(bs) : w[i] = w[i - 1] \o bs[i]

(* FlattenSeq(bs), a recursive function in the community modules, is the   *)
(* last of these.                                                          *)
LEMMA FlattenSteps ==
  ASSUME NEW X, NEW bs \in Seq(Seq(X))
  PROVE  \E w : IsFlattening(w, bs) /\ w[Len(bs)] = FlattenSeq(bs)
<1>0. PICK n \in Nat : /\ n = Len(bs) /\ DOMAIN bs = 1 .. n
                       /\ \A i \in 1 .. n : bs[i] \in Seq(X)
  BY LenProperties, ElementOfSeq
<1> DEFINE Is(f, k) == f = [i \in 1 .. k |-> IF i = 1 THEN bs[1] ELSE f[i - 1] \o bs[i]]
           D == {k \in 0 .. n : \E f : Is(f, k)}
<1>1. 0 \in D
  <2> DEFINE g == [i \in {} |-> bs[1]]
  <2>1. 1 .. 0 = {}
    OBVIOUS
  <2>2. Is(g, 0)
    BY <2>1
  <2> HIDE DEF Is, g
  <2> QED BY <1>0, <2>2
<1>2. ASSUME NEW k \in 1 .. n, k - 1 \in D PROVE k \in D
  <2>1. PICK g : Is(g, k - 1)
    BY <1>2
  <2> DEFINE h == [i \in 1 .. k |-> IF i = k THEN IF k = 1 THEN bs[1] ELSE g[k - 1] \o bs[k]
                                    ELSE g[i]]
  <2>2. ASSUME NEW i \in 1 .. k
        PROVE  h[i] = IF i = 1 THEN bs[1] ELSE h[i - 1] \o bs[i]
    <3>1. CASE i = k
      BY <1>0, <3>1
    <3>2. CASE i # k
      <4>1. i \in 1 .. k - 1
        BY <1>0, <3>2
      <4>2. g[i] = IF i = 1 THEN bs[1] ELSE g[i - 1] \o bs[i]
        BY <2>1, <4>1
      <4> QED BY <1>0, <3>2, <4>1, <4>2
    <3> QED BY <3>1, <3>2
  <2>3. Is(h, k)
    BY <2>2
  <2> HIDE DEF h, Is
  <2> QED BY <1>0, <2>3
<1> HIDE DEF D, Is
<1>3. n \in D
  <2>1. \A k \in 1 .. n : k - 1 \in D => k \in D
    BY <1>2
  <2>2. \A k \in 0 .. n : k \in D
    BY <1>1, <2>1, UpTo, Zenon
  <2> QED BY <2>2
<1> DEFINE f == CHOOSE g : Is(g, n)
<1> USE DEF Is
<1>4. n # 0 => FlattenSeq(bs) = f[n]
  BY <1>0 DEF FlattenSeq
<1>5. Is(f, n)
  <2> HIDE DEF Is
  <2> QED BY <1>3 DEF D
<1> HIDE DEF f
<1> DEFINE w == [i \in 0 .. n |-> IF i = 0 THEN <<>> ELSE f[i]]
<1>6. w[0] = <<>>
  BY <1>0
<1>7. ASSUME NEW i \in 1 .. n PROVE w[i] = w[i - 1] \o bs[i]
  <2>1. CASE i = 1
    <3>1. w[1] = bs[1] /\ bs[1] \in Seq(X)
      BY <1>0, <1>5, <2>1
    <3>2. <<>> \o bs[1] = bs[1]
      BY <3>1, ConcatEmptySeq
    <3> QED BY <1>0, <1>6, <2>1, <3>1, <3>2
  <2>2. CASE i # 1
    <3>1. f[i] = f[i - 1] \o bs[i]
      BY <1>0, <1>5, <2>2
    <3>2. i - 1 \in 0 .. n /\ i - 1 # 0 /\ i # 0 /\ i \in 0 .. n
      BY <1>0, <2>2
    <3>3. w[i] = f[i] /\ w[i - 1] = f[i - 1]
      BY <3>2
    <3> QED BY <3>1, <3>3
  <2> QED BY <2>1, <2>2
<1>8. w[n] = FlattenSeq(bs)
  <2>1. CASE n = 0
    <3>1. bs = <<>>
      BY <1>0, <2>1, EmptySeq
    <3>2. FlattenSeq(bs) = bs
      BY <1>0, <2>1 DEF FlattenSeq
    <3> QED BY <1>6, <2>1, <3>1, <3>2
  <2>2. CASE n # 0
    BY <1>0, <1>4, <2>2
  <2> QED BY <2>1, <2>2
<1> HIDE DEF w
<1> QED BY <1>0, <1>6, <1>7, <1>8 DEF IsFlattening

(* Two sequences together have the elements of both. *)
LEMMA ConcatHas ==
  ASSUME NEW X, NEW s \in Seq(X), NEW t \in Seq(X)
  PROVE  s \o t \in Seq(X) /\ ToSet(s \o t) = ToSet(s) \cup ToSet(t)
<1>1. /\ s \o t \in Seq(X) /\ Len(s \o t) = Len(s) + Len(t)
      /\ \A i \in 1 .. Len(s) : (s \o t)[i] = s[i]
      /\ \A i \in 1 .. Len(t) : (s \o t)[Len(s) + i] = t[i]
  BY ConcatProperties, LenProperties
<1>2. /\ DOMAIN s = 1 .. Len(s) /\ DOMAIN t = 1 .. Len(t)
      /\ DOMAIN (s \o t) = 1 .. Len(s) + Len(t)
      /\ Len(s) \in Nat /\ Len(t) \in Nat
  BY <1>1, LenProperties
<1>3. ASSUME NEW j \in 1 .. Len(s) + Len(t)
      PROVE  (s \o t)[j] \in ToSet(s) \cup ToSet(t)
  <2>1. CASE j <= Len(s)
    <3>1. j \in 1 .. Len(s)
      BY <1>2, <2>1
    <3> QED BY <1>1, <1>2, <3>1 DEF ToSet
  <2>2. CASE j > Len(s)
    <3>1. j - Len(s) \in 1 .. Len(t) /\ Len(s) + (j - Len(s)) = j
      BY <1>2, <2>2
    <3>2. (s \o t)[j] = t[j - Len(s)]
      BY <1>1, <3>1
    <3> QED BY <1>2, <3>1, <3>2 DEF ToSet
  <2> QED BY <1>2, <2>1, <2>2
<1>4. \A i \in 1 .. Len(s) : s[i] \in ToSet(s \o t)
  BY <1>1, <1>2 DEF ToSet
<1>5. ASSUME NEW i \in 1 .. Len(t) PROVE t[i] \in ToSet(s \o t)
  <2>1. Len(s) + i \in 1 .. Len(s) + Len(t)
    BY <1>2
  <2> QED BY <1>1, <1>2, <2>1 DEF ToSet
<1>6. ToSet(s \o t) \subseteq ToSet(s) \cup ToSet(t)
  BY <1>2, <1>3 DEF ToSet
<1> QED BY <1>1, <1>2, <1>4, <1>5, <1>6 DEF ToSet

(* The elements of the first i sequences. *)
InFirst(bs, i) == UNION {ToSet(bs[b]) : b \in 1 .. i}

(* The first i sequences in a row have the elements of the first i. *)
LEMMA FlatteningHas ==
  ASSUME NEW X, NEW bs \in Seq(Seq(X)), NEW w, IsFlattening(w, bs)
  PROVE  \A i \in 0 .. Len(bs) :
           /\ w[i] \in Seq(X)
           /\ ToSet(w[i]) = InFirst(bs, i)
<1> DEFINE D == {i \in 0 .. Len(bs) :
                   /\ w[i] \in Seq(X)
                   /\ ToSet(w[i]) = InFirst(bs, i)}
<1>0. Len(bs) \in Nat /\ \A i \in 1 .. Len(bs) : bs[i] \in Seq(X)
  BY LenProperties, ElementOfSeq
<1>1. 0 \in D
  <2>1. w[0] = <<>>
    BY DEF IsFlattening
  <2>2. ToSet(<<>>) = {} /\ <<>> \in Seq(X)
    BY EmptySeq DEF ToSet
  <2>3. InFirst(bs, 0) = {}
    BY DEF InFirst
  <2>4. w[0] \in Seq(X) /\ ToSet(w[0]) = InFirst(bs, 0)
    BY <2>1, <2>2, <2>3
  <2> QED BY <1>0, <2>4
<1>2. ASSUME NEW i \in 1 .. Len(bs), i - 1 \in D PROVE i \in D
  <2>1. w[i - 1] \in Seq(X) /\ bs[i] \in Seq(X) /\ w[i] = w[i - 1] \o bs[i]
    BY <1>0, <1>2 DEF IsFlattening
  <2>2. w[i] \in Seq(X) /\ ToSet(w[i]) = ToSet(w[i - 1]) \cup ToSet(bs[i])
    BY <2>1, ConcatHas
  <2>3. InFirst(bs, i) = InFirst(bs, i - 1) \cup ToSet(bs[i])
    <3>1. 1 .. i = (1 .. i - 1) \cup {i}
      BY <1>0
    <3>2. ASSUME NEW Y, NEW y, Y = (1 .. i - 1) \cup {i}
          PROVE  y \in UNION {ToSet(bs[b]) : b \in Y} <=>
                   y \in (UNION {ToSet(bs[b]) : b \in 1 .. i - 1}) \cup ToSet(bs[i])
      BY <3>2, Zenon
    <3> QED BY <3>1, <3>2 DEF InFirst
  <2>4. i - 1 \in 0 .. Len(bs) /\ i \in 0 .. Len(bs)
    BY <1>0
  <2>5. ToSet(w[i - 1]) = InFirst(bs, i - 1)
    BY <1>2
  <2>6. w[i] \in Seq(X) /\ ToSet(w[i]) = InFirst(bs, i)
    BY <2>2, <2>3, <2>5
  <2> QED BY <2>4, <2>6
<1> HIDE DEF D
<1>3. \A i \in 0 .. Len(bs) : i \in D
  BY <1>0, <1>1, <1>2, UpTo
<1> QED BY <1>3 DEF D

(* A flattening can be cut before any of the sequences. *)
LEMMA FlattenCut ==
  ASSUME NEW X, NEW bs \in Seq(Seq(X)), NEW m \in 1 .. Len(bs)
  PROVE  \E pre \in Seq(X) :
           /\ FlattenSeq(bs) = pre \o FlattenSeq(SubSeq(bs, m, Len(bs)))
           /\ FlattenSeq(SubSeq(bs, m, Len(bs))) \in Seq(X)
           /\ ToSet(pre) = InFirst(bs, m - 1)
           /\ ToSet(bs[m]) \subseteq ToSet(FlattenSeq(SubSeq(bs, m, Len(bs))))
<1>0. PICK n \in Nat : n = Len(bs) /\ m \in 1 .. n /\ \A i \in 1 .. n : bs[i] \in Seq(X)
  BY LenProperties, ElementOfSeq
<1> DEFINE cs == SubSeq(bs, m, n)
<1>1. /\ cs \in Seq(Seq(X)) /\ Len(cs) = n - m + 1
      /\ \A i \in 1 .. n - m + 1 : cs[i] = bs[m + i - 1]
  BY <1>0, SubSeqProperties
<1>2. PICK w : IsFlattening(w, bs) /\ w[n] = FlattenSeq(bs)
  BY <1>0, FlattenSteps
<1>3. PICK v : IsFlattening(v, cs) /\ v[Len(cs)] = FlattenSeq(cs)
  BY <1>1, FlattenSteps
<1>4. \A i \in 0 .. n : w[i] \in Seq(X) /\ ToSet(w[i]) = InFirst(bs, i)
  BY <1>0, <1>2, FlatteningHas
<1>5. \A i \in 0 .. Len(cs) :
        v[i] \in Seq(X) /\ ToSet(v[i]) = InFirst(cs, i)
  BY <1>1, <1>3, FlatteningHas
<1> HIDE DEF cs
<1>len. PICK len \in Nat : len = n - m + 1
  <2>1. n - m + 1 \in Nat
    BY <1>0
  <2> QED BY <2>1
<1> DEFINE D == {i \in 0 .. len : w[m - 1 + i] = w[m - 1] \o v[i]}
<1>6. m - 1 \in 0 .. n
  BY <1>0
<1>7. 0 \in D
  <2>1. v[0] = <<>> /\ w[m - 1] \in Seq(X)
    BY <1>3, <1>4, <1>6 DEF IsFlattening
  <2>2. w[m - 1] \o <<>> = w[m - 1]
    BY <2>1, ConcatEmptySeq
  <2>3. m - 1 + 0 = m - 1 /\ 0 \in 0 .. len
    BY <1>0
  <2> QED BY <2>1, <2>2, <2>3
<1>8. ASSUME NEW i \in 1 .. len, i - 1 \in D PROVE i \in D
  <2>1. m - 1 + i \in 1 .. n /\ i - 1 \in 0 .. Len(cs) /\ i \in 1 .. Len(cs) /\ m - 1 + i - 1 = m - 1 + (i - 1)
    BY <1>0, <1>len, <1>1
  <2>2. w[m - 1 + i] = w[m - 1 + (i - 1)] \o bs[m - 1 + i]
    <3>1. \A j \in 1 .. n : w[j] = w[j - 1] \o bs[j]
      BY <1>0, <1>2 DEF IsFlattening
    <3>2. m - 1 + i \in 1 .. n
      BY <2>1
    <3>3. w[m - 1 + i] = w[(m - 1 + i) - 1] \o bs[m - 1 + i]
      BY <3>1, <3>2
    <3>4. (m - 1 + i) - 1 = m - 1 + (i - 1)
      BY <1>0
    <3> QED BY <3>3, <3>4
  <2>3. v[i] = v[i - 1] \o cs[i] /\ cs[i] = bs[m - 1 + i]
    <3>1. cs[i] = bs[m + i - 1] /\ m + i - 1 = m - 1 + i
      BY <1>0, <1>len, <1>1
    <3> QED BY <1>3, <2>1, <3>1 DEF IsFlattening
  <2>4. w[m - 1 + (i - 1)] = w[m - 1] \o v[i - 1]
    BY <1>8
  <2>5. w[m - 1] \in Seq(X) /\ v[i - 1] \in Seq(X) /\ cs[i] \in Seq(X)
    BY <1>0, <1>4, <1>5, <1>6, <2>1, <2>3
  <2>6. (w[m - 1] \o v[i - 1]) \o cs[i] = w[m - 1] \o (v[i - 1] \o cs[i])
    <3>1. \A a, b, c \in Seq(X) : (a \o b) \o c = a \o (b \o c)
      BY ConcatAssociative
    <3> QED BY <2>5, <3>1, Zenon
  <2>7. w[m - 1 + i] = w[m - 1] \o v[i]
    BY <2>2, <2>3, <2>4, <2>6
  <2>8. i \in 0 .. len
    OBVIOUS
  <2> QED BY <2>7, <2>8
<1> HIDE DEF D
<1>9. len \in D
  <2>1. \A i \in 1 .. len : i - 1 \in D => i \in D
    BY <1>8
  <2>2. \A i \in 0 .. len : i \in D
    BY <1>7, <2>1, UpTo, Zenon
  <2> QED BY <2>2
<1>10. w[n] = w[m - 1] \o v[Len(cs)]
  <2>1. m - 1 + len = n /\ len = Len(cs)
    BY <1>0, <1>len, <1>1
  <2> QED BY <1>9, <2>1 DEF D
<1>11. ToSet(bs[m]) \subseteq ToSet(v[Len(cs)])
  <2>1. 1 \in 1 .. n - m + 1 /\ m + 1 - 1 = m
    BY <1>0
  <2>2. cs[1] = bs[m] /\ 1 \in 1 .. Len(cs) /\ Len(cs) \in 0 .. Len(cs)
    <3>1. cs[1] = bs[m + 1 - 1] /\ Len(cs) = n - m + 1
      BY <1>1, <2>1
    <3> QED BY <2>1, <3>1, <1>len
  <2>3. ToSet(v[Len(cs)]) = InFirst(cs, Len(cs))
    BY <1>5, <2>2
  <2>4. ToSet(cs[1]) \subseteq InFirst(cs, Len(cs))
    BY <2>2 DEF InFirst
  <2> QED BY <2>2, <2>3, <2>4
<1>12. /\ w[m - 1] \in Seq(X) /\ v[Len(cs)] \in Seq(X)
       /\ ToSet(w[m - 1]) = InFirst(bs, m - 1)
  BY <1>0, <1>1, <1>4, <1>5, <1>6
<1> QED BY <1>0, <1>2, <1>3, <1>10, <1>11, <1>12 DEF cs

-----------------------------------------------------------------------------
(* What is on a chain up to a position *)

Tx == Stop \cup Create \cup Bid
Chains(n) == [1 .. n -> Tx]

CreationsTo(T, i, id) == {j \in 1 .. i : T[j] \in Create /\ T[j].id = id}
StopsTo(T, i, id) == {j \in 1 .. i : T[j] \in Stop /\ T[j].id = id}
ValidTo(T, i, id) ==
  {j \in 1 .. i :
     /\ T[j] \in Bid /\ T[j].id = id
     /\ CreationsTo(T, i, id) # {} /\ j > Max(CreationsTo(T, i, id))
     /\ \A k \in StopsTo(T, i, id) : j < k}

(* A transaction is of one kind. *)
LEMMA Kinds ==
  ASSUME NEW t \in Tx
  PROVE  /\ t.id \in AuctionId
         /\ t \in Stop => t \notin Create /\ t \notin Bid
         /\ t \in Create => t \notin Stop /\ t \notin Bid /\ t.amount \in Nat
         /\ t \in Bid => t \notin Stop /\ t \notin Create /\ t.amount \in Nat
  BY AmountAssumption DEF Tx, Stop, Create, Bid

(* A stop ends no bid that came before it. *)
LEMMA AfterStop ==
  ASSUME NEW n \in Nat, NEW T \in Chains(n), NEW i \in 1 .. n, T[i] \in Stop, NEW id
  PROVE  /\ CreationsTo(T, i, id) = CreationsTo(T, i - 1, id)
         /\ StopsTo(T, i, id) = StopsTo(T, i - 1, id) \cup (IF T[i].id = id THEN {i} ELSE {})
         /\ ValidTo(T, i, id) = ValidTo(T, i - 1, id)
<1>1. T[i] \notin Create /\ T[i] \notin Bid
  BY Kinds DEF Chains
<1>4. 1 .. i = (1 .. i - 1) \cup {i}
  OBVIOUS
<1>2. /\ CreationsTo(T, i, id) = CreationsTo(T, i - 1, id)
      /\ StopsTo(T, i, id) = StopsTo(T, i - 1, id) \cup (IF T[i].id = id THEN {i} ELSE {})
  BY <1>1, <1>4 DEF CreationsTo, StopsTo
<1>3. ASSUME NEW j \in 1 .. i - 1
      PROVE  (\A k \in StopsTo(T, i, id) : j < k) <=> (\A k \in StopsTo(T, i - 1, id) : j < k)
  BY <1>2
<1>5. ValidTo(T, i, id) = ValidTo(T, i - 1, id)
  BY <1>1, <1>2, <1>3, <1>4 DEF ValidTo
<1> QED BY <1>2, <1>5

(* A creation starts its auction anew... *)
LEMMA AfterOwnCreate ==
  ASSUME NEW n \in Nat, NEW T \in Chains(n), NEW i \in 1 .. n, T[i] \in Create,
         NEW id, T[i].id = id
  PROVE  CreationsTo(T, i, id) # {} /\ Max(CreationsTo(T, i, id)) = i /\ ValidTo(T, i, id) = {}
<1>1. CreationsTo(T, i, id) \in SUBSET (1 .. i) /\ i \in CreationsTo(T, i, id)
  BY DEF CreationsTo
<1>2. Max(CreationsTo(T, i, id)) = i
  BY <1>1, MaxOfPrefix
<1> QED BY <1>1, <1>2 DEF ValidTo

(* ... and leaves the others alone. *)
LEMMA AfterCreate ==
  ASSUME NEW n \in Nat, NEW T \in Chains(n), NEW i \in 1 .. n, T[i] \in Create, NEW id
  PROVE  /\ StopsTo(T, i, id) = StopsTo(T, i - 1, id)
         /\ T[i].id # id => /\ CreationsTo(T, i, id) = CreationsTo(T, i - 1, id)
                            /\ ValidTo(T, i, id) = ValidTo(T, i - 1, id)
<1>1. T[i] \notin Stop /\ T[i] \notin Bid
  BY Kinds DEF Chains
<1>2. 1 .. i = (1 .. i - 1) \cup {i}
  OBVIOUS
<1>3. StopsTo(T, i, id) = StopsTo(T, i - 1, id)
  BY <1>1, <1>2 DEF StopsTo
<1>4. ASSUME T[i].id # id
      PROVE  /\ CreationsTo(T, i, id) = CreationsTo(T, i - 1, id)
             /\ ValidTo(T, i, id) = ValidTo(T, i - 1, id)
  <2>1. CreationsTo(T, i, id) = CreationsTo(T, i - 1, id)
    BY <1>2, <1>4 DEF CreationsTo
  <2> QED BY <1>1, <1>2, <1>3, <2>1 DEF ValidTo
<1> QED BY <1>3, <1>4

(* A bid counts from the creation of its auction to its first stop. *)
LEMMA AfterBid ==
  ASSUME NEW n \in Nat, NEW T \in Chains(n), NEW i \in 1 .. n, T[i] \in Bid, NEW id
  PROVE  /\ CreationsTo(T, i, id) = CreationsTo(T, i - 1, id)
         /\ StopsTo(T, i, id) = StopsTo(T, i - 1, id)
         /\ T[i].id = id /\ CreationsTo(T, i - 1, id) # {} /\ StopsTo(T, i - 1, id) = {}
              => ValidTo(T, i, id) = ValidTo(T, i - 1, id) \cup {i}
         /\ ~(T[i].id = id /\ CreationsTo(T, i - 1, id) # {} /\ StopsTo(T, i - 1, id) = {})
              => ValidTo(T, i, id) = ValidTo(T, i - 1, id)
         /\ i \notin ValidTo(T, i - 1, id)
<1>1. T[i] \notin Stop /\ T[i] \notin Create
  BY Kinds DEF Chains
<1>3. 1 .. i = (1 .. i - 1) \cup {i} /\ i \notin 1 .. i - 1
  OBVIOUS
<1>2. /\ CreationsTo(T, i, id) = CreationsTo(T, i - 1, id)
      /\ StopsTo(T, i, id) = StopsTo(T, i - 1, id)
      /\ CreationsTo(T, i - 1, id) \subseteq 1 .. i - 1
      /\ StopsTo(T, i - 1, id) \subseteq 1 .. i - 1
      /\ i \notin ValidTo(T, i - 1, id)
  BY <1>1, <1>3 DEF CreationsTo, StopsTo, ValidTo
<1>4. i \in ValidTo(T, i, id) <=>
        /\ T[i].id = id /\ CreationsTo(T, i - 1, id) # {}
        /\ StopsTo(T, i - 1, id) = {}
  <2>1. CreationsTo(T, i - 1, id) # {} => i > Max(CreationsTo(T, i - 1, id))
    <3>1. i - 1 \in Nat
      OBVIOUS
    <3> QED BY <1>2, <3>1, MaxUpTo
  <2>2. (\A k \in StopsTo(T, i - 1, id) : i < k) <=> StopsTo(T, i - 1, id) = {}
    BY <1>2
  <2> QED BY <1>2, <2>1, <2>2 DEF ValidTo
<1>5. \A j \in 1 .. i - 1 : j \in ValidTo(T, i, id) <=> j \in ValidTo(T, i - 1, id)
  BY <1>2, <1>3 DEF ValidTo
<1>6. ValidTo(T, i, id) \subseteq (1 .. i - 1) \cup {i} /\ ValidTo(T, i - 1, id) \subseteq 1 .. i - 1
  BY <1>3 DEF ValidTo
<1> QED BY <1>2, <1>4, <1>5, <1>6

(* The case of AfterBid in which the bid counts. *)
LEMMA AfterCountedBid ==
  ASSUME NEW n \in Nat, NEW T \in Chains(n), NEW i \in 1 .. n, T[i] \in Bid,
         NEW id, T[i].id = id,
         CreationsTo(T, i - 1, id) # {}, StopsTo(T, i - 1, id) = {}
  PROVE  /\ CreationsTo(T, i, id) = CreationsTo(T, i - 1, id)
         /\ ValidTo(T, i, id) = ValidTo(T, i - 1, id) \cup {i}
         /\ i \notin ValidTo(T, i - 1, id)
  BY AfterBid

-----------------------------------------------------------------------------
(* The greatest of the amounts *)

AmountsOf(T, W) == {T[j].amount : j \in W}

(* Positions of transactions with an amount. *)
Priced(T, n, W) == W \subseteq 1 .. n /\ \A j \in W : T[j].amount \in Nat

(* The greatest of their amounts, as an Option. *)
Greatest(T, W) == IF W = {} THEN {} ELSE {Max(AmountsOf(T, W))}

(* One more position, one more amount. *)
With(W, i) == W \cup {i}
Raise(S, a) == {Max(S \cup {a})}

HasMax(S) == S \subseteq Nat /\ \E m \in S : \A x \in S : m >= x

(* Where there is a greatest element, Max is it. *)
LEMMA MaxOf ==
  ASSUME NEW S, HasMax(S)
  PROVE  Max(S) \in S /\ Max(S) \in Nat /\ \A x \in S : Max(S) >= x
<1>1. PICK m \in S : \A x \in S : m >= x
  BY DEF HasMax
<1>2. S \subseteq Nat
  BY DEF HasMax
<1>3. Max(S) = m
  BY <1>1, <1>2, MaxIs
<1> QED BY <1>1, <1>2, <1>3

(* A set with a greatest element has one after a number is added, and it   *)
(* can be found from the greatest so far.                                  *)
LEMMA MaxInsert ==
  ASSUME NEW S, S \subseteq Nat, S = {} \/ HasMax(S), NEW a \in Nat
  PROVE  /\ HasMax(S \cup {a})
         /\ S # {} => Max({Max(S)} \cup {a}) = Max(S \cup {a})
<1>1. CASE S = {}
  BY <1>1 DEF HasMax
<1>2. CASE S # {}
  <2>1. HasMax(S)
    BY <1>2
  <2>2. PICK m \in Nat : m = Max(S) /\ m \in S /\ \A x \in S : m >= x
    BY <2>1, MaxOf
  <2>3. PICK g \in {m, a} : g >= m /\ g >= a
    BY <2>2
  <2>4. /\ S \cup {a} \subseteq Nat /\ g \in S \cup {a} /\ g \in Nat
        /\ \A x \in S \cup {a} : g >= x
    BY <2>2, <2>3
  <2>5. Max(S \cup {a}) = g /\ HasMax(S \cup {a})
    BY <2>4, MaxIs DEF HasMax
  <2>6. Max({m} \cup {a}) = g
    <3>1. {m} \cup {a} \subseteq Nat /\ g \in {m} \cup {a} /\ \A x \in {m} \cup {a} : g >= x
      BY <2>2, <2>3
    <3> QED BY <3>1, MaxIs
  <2> QED BY <2>2, <2>5, <2>6
<1> QED BY <1>1, <1>2

(* Of the amounts at finitely many positions one is the greatest. *)
LEMMA AmountsHaveMax ==
  ASSUME NEW n \in Nat, NEW T, NEW W, Priced(T, n, W)
  PROVE  AmountsOf(T, W) \subseteq Nat /\ (W = {} \/ HasMax(AmountsOf(T, W)))
<1>p. W \subseteq 1 .. n /\ \A j \in W : T[j].amount \in Nat
  BY DEF Priced
<1> DEFINE Good(V) == AmountsOf(T, V) \subseteq Nat /\ (V = {} \/ HasMax(AmountsOf(T, V)))
           D == {k \in 0 .. n : \A V \in SUBSET W : V \subseteq 1 .. k => Good(V)}
<1>1. 0 \in D
  <2>1. \A V \in SUBSET W : V \subseteq 1 .. 0 => V = {}
    OBVIOUS
  <2>2. Good({})
    BY DEF AmountsOf
  <2>3. 0 \in 0 .. n
    OBVIOUS
  <2> HIDE DEF Good
  <2> QED BY <2>1, <2>2, <2>3
<1>2. ASSUME NEW k \in 1 .. n, k - 1 \in D PROVE k \in D
  <2>1. ASSUME NEW V \in SUBSET W, V \subseteq 1 .. k PROVE Good(V)
    <3>1. CASE k \notin V
      <4>1. V \subseteq 1 .. k - 1
        BY <2>1, <3>1
      <4> QED BY <1>2, <4>1
    <3>2. CASE k \in V
      <4> DEFINE U == V \ {k}
      <4>1. U \subseteq 1 .. k - 1 /\ U \in SUBSET W /\ V = U \cup {k} /\ T[k].amount \in Nat
        <5>1. \A x \in V \ {k} : x \in 1 .. k /\ x # k
          BY <2>1
        <5>2. k \in W
          BY <3>2
        <5> QED BY <1>p, <3>2, <5>1, <5>2
      <4>2. AmountsOf(T, V) = AmountsOf(T, U) \cup {T[k].amount}
        BY <4>1 DEF AmountsOf
      <4>3. AmountsOf(T, U) \subseteq Nat /\ (AmountsOf(T, U) = {} \/ HasMax(AmountsOf(T, U)))
        <5>1. Good(U)
          BY <1>2, <4>1
        <5>2. U = {} => AmountsOf(T, U) = {}
          BY DEF AmountsOf
        <5> QED BY <5>1, <5>2
      <4> HIDE DEF U
      <4>4. HasMax(AmountsOf(T, V))
        BY <4>1, <4>2, <4>3, MaxInsert
      <4> QED BY <4>1, <4>2, <4>3, <4>4
    <3> QED BY <3>1, <3>2
  <2>2. k \in 0 .. n
    OBVIOUS
  <2> HIDE DEF Good
  <2> QED BY <2>1, <2>2
<1> HIDE DEF D
<1>3. n \in D
  <2>1. \A k \in 1 .. n : k - 1 \in D => k \in D
    BY <1>2
  <2>2. \A k \in 0 .. n : k \in D
    BY <1>1, <2>1, UpTo, Zenon
  <2> QED BY <2>2
<1>4. Good(W)
  BY <1>p, <1>3 DEF D
<1> QED BY <1>4

(* The greatest amount after one more bid, from the greatest before it. *)
LEMMA GreatestInsert ==
  ASSUME NEW n \in Nat, NEW T, NEW W, Priced(T, n, W), NEW V, Priced(T, n, V), V \subseteq W,
         NEW i \in 1 .. n, T[i].amount \in Nat
  PROVE  /\ Raise(Greatest(T, W), T[i].amount) = Greatest(T, With(W, i))
         /\ Raise(Greatest(T, W) \cup Greatest(T, V), T[i].amount) = Greatest(T, With(W, i))
<1> USE DEF Raise, With
<1> DEFINE a == T[i].amount
           A == AmountsOf(T, W)
           B == AmountsOf(T, V)
<1>1. A \subseteq Nat /\ (W = {} \/ HasMax(A)) /\ a \in Nat
  BY AmountsHaveMax DEF Priced
<1>2. B \subseteq A /\ (V = {} \/ HasMax(B))
  BY AmountsHaveMax DEF AmountsOf
<1>3. AmountsOf(T, W \cup {i}) = A \cup {a} /\ (W = {} => A = {})
  BY DEF AmountsOf
<1>4. Greatest(T, W \cup {i}) = {Max(A \cup {a})}
  BY <1>3 DEF Greatest
<1>5. CASE W = {}
  <2>1. Greatest(T, W) = {} /\ Greatest(T, V) = {} /\ A = {}
    BY <1>3, <1>5 DEF Greatest
  <2> QED BY <1>4, <2>1
<1>6. CASE W # {}
  <2>1. Greatest(T, W) = {Max(A)} /\ HasMax(A)
    BY <1>1, <1>6 DEF Greatest
  <2>2. Max({Max(A)} \cup {a}) = Max(A \cup {a})
    <3>1. A # {}
      BY <1>6 DEF AmountsOf
    <3> HIDE DEF a, A
    <3> QED BY <1>1, <2>1, <3>1, MaxInsert
  <2>3. CASE V = {}
    BY <1>4, <2>1, <2>2, <2>3 DEF Greatest
  <2>4. CASE V # {}
    <3>1. Greatest(T, V) = {Max(B)} /\ Max(B) \in A
      BY <1>2, <2>4, MaxOf DEF Greatest
    <3>2. PICK m \in A : m = Max(A) /\ m \in Nat /\ \A x \in A : m >= x
      BY <2>1, MaxOf
    <3>3. PICK b \in A : b = Max(B) /\ b \in Nat
      BY <1>1, <3>1
    <3>4. PICK g \in {m, a} : g >= m /\ g >= a
      BY <1>1, <3>2
    <3>5. Max({m} \cup {b} \cup {a}) = g /\ Max({m} \cup {a}) = g
      <4>1. /\ {m} \cup {b} \cup {a} \subseteq Nat /\ g \in {m} \cup {b} \cup {a}
            /\ \A x \in {m} \cup {b} \cup {a} : g >= x
        BY <1>1, <3>2, <3>3, <3>4
      <4>2. {m} \cup {a} \subseteq Nat /\ g \in {m} \cup {a} /\ \A x \in {m} \cup {a} : g >= x
        BY <4>1, <3>4
      <4> HIDE DEF a, A, B
      <4> QED BY <4>1, <4>2, MaxIs
    <3> HIDE DEF a, A, B
    <3> QED BY <1>4, <2>1, <2>2, <3>1, <3>2, <3>3, <3>5 DEF a
  <2> QED BY <2>3, <2>4
<1> QED BY <1>5, <1>6

-----------------------------------------------------------------------------
(* The two tables *)

AvailableRow(T, i, id) ==
  LET opening == T[Max(CreationsTo(T, i, id))]
      valid   == ValidTo(T, i, id)
  IN  [from    |-> opening.from,
       start   |-> opening.amount,
       highest |-> IF valid = {} THEN {}
                   ELSE {Max(AmountsOf(T, valid) \cup {opening.amount})},
       bids    |-> Cardinality(valid)]

AvailableAt(T, i) ==
  [auctions |-> [id \in {a \in AuctionId : CreationsTo(T, i, a) # {}} |->
                   AvailableRow(T, i, id)],
   ended    |-> {a \in AuctionId : StopsTo(T, i, a) # {}}]

ValidByTo(T, i, who, id) == {j \in ValidTo(T, i, id) : T[j].from = who}

ProfileRow(T, i, who, id) ==
  [start |-> T[Max(CreationsTo(T, i, id))].amount,
   my    |-> Greatest(T, ValidByTo(T, i, who, id)),
   max   |-> Greatest(T, ValidTo(T, i, id)),
   bid   |-> ValidByTo(T, i, who, id) # {}]

ProfileAt(T, i, who) ==
  [auctions |-> [id \in {a \in AuctionId : CreationsTo(T, i, a) # {}} |->
                   ProfileRow(T, i, who, id)],
   ended    |-> {a \in AuctionId : StopsTo(T, i, a) # {}}]

(* A row after a bid that counts. *)
RowAfterBid(row, amount) ==
  LET bid == row.highest \cup {amount}
  IN  [row EXCEPT
         !.highest = {Max(IF row.highest = {} THEN bid \cup {row.start} ELSE bid)},
         !.bids = @ + 1]

(* What the row of an auction should say after a bid that counts follows   *)
(* from what it should say before.                                         *)
LEMMA AvailableRowAfterBid ==
  ASSUME NEW n \in Nat, NEW T \in Chains(n), NEW i \in 1 .. n, T[i] \in Bid,
         NEW id, T[i].id = id,
         CreationsTo(T, i - 1, id) # {}, StopsTo(T, i - 1, id) = {}
  PROVE  AvailableRow(T, i, id) = RowAfterBid(AvailableRow(T, i - 1, id), T[i].amount)
<1> DEFINE V == ValidTo(T, i - 1, id)
           C == CreationsTo(T, i - 1, id)
           start == T[Max(C)].amount
           A == AmountsOf(T, V) \cup {start}
           a == T[i].amount
           row == AvailableRow(T, i - 1, id)
           from == T[Max(C)].from
           bid == row.highest \cup {a}
<1>1. /\ CreationsTo(T, i, id) = C /\ ValidTo(T, i, id) = V \cup {i} /\ i \notin V
  BY AfterCountedBid
<1>2. Priced(T, n, V) /\ V \subseteq 1 .. n
  <2>1. \A j \in V : j \in 1 .. n /\ T[j] \in Bid
    BY DEF ValidTo
  <2> QED BY <2>1, Kinds DEF Chains, Priced
<1>3. start \in Nat /\ a \in Nat
  <2>1. C \subseteq 1 .. i - 1 /\ i - 1 \in Nat
    BY DEF CreationsTo
  <2>2. Max(C) \in C
    BY <2>1, MaxUpTo
  <2>3. Max(C) \in 1 .. n /\ T[Max(C)] \in Create
    BY <2>1, <2>2 DEF CreationsTo
  <2> QED BY <2>3, Kinds DEF Chains
<1>4. AmountsOf(T, V \cup {i}) \cup {start} = A \cup {a}
  BY DEF AmountsOf
<1>5. Cardinality(V \cup {i}) = Cardinality(V) + 1 /\ Cardinality(V) \in Nat
  <2>1. IsFiniteSet(1 .. n)
    BY FS_Interval
  <2>2. IsFiniteSet(V)
    BY <1>2, <2>1, FS_Subset
  <2> QED BY <1>1, <2>2, FS_AddElement, FS_CardinalityType
<1>6. Max(IF row.highest = {} THEN bid \cup {start} ELSE bid) = Max(A \cup {a})
  <2>1. CASE V = {}
    <3>1. row.highest = {} /\ A = {start}
      BY <2>1 DEF AvailableRow, AmountsOf
    <3>2. bid \cup {start} = A \cup {a}
      BY <3>1
    <3> QED BY <3>1, <3>2
  <2>2. CASE V # {}
    <3>1. row.highest = {Max(A)}
      BY <2>2 DEF AvailableRow
    <3>2. HasMax(A) /\ A # {} /\ A \subseteq Nat
      <4>1. AmountsOf(T, V) \subseteq Nat /\ HasMax(AmountsOf(T, V))
        BY <1>2, <2>2, AmountsHaveMax
      <4>2. HasMax(A)
        BY <1>3, <4>1, MaxInsert
      <4> QED BY <1>3, <4>1, <4>2
    <3>3. Max({Max(A)} \cup {a}) = Max(A \cup {a})
      <4> HIDE DEF A, a
      <4> QED BY <1>3, <3>2, MaxInsert
    <3> HIDE DEF A, a, row
    <3> QED BY <3>1, <3>3 DEF bid
  <2> QED BY <2>1, <2>2
<1>7. AvailableRow(T, i, id) =
        [from |-> from, start |-> start, highest |-> {Max(A \cup {a})},
         bids |-> Cardinality(V) + 1]
  <2>1. V \cup {i} # {}
    OBVIOUS
  <2> QED BY <1>1, <1>4, <1>5, <2>1 DEF AvailableRow
<1>8. /\ \E high : row = [from |-> from, start |-> start, highest |-> high,
                         bids |-> Cardinality(V)]
      /\ row.start = start
  BY DEF AvailableRow
<1> HIDE DEF from, row, start, A, a, C, V, bid
<1> DEFINE h == Max(IF row.highest = {} THEN bid \cup {row.start} ELSE bid)
           r == [row EXCEPT !.highest = {h}, !.bids = @ + 1]
<1>9. h = Max(A \cup {a})
  BY <1>6, <1>8
<1> HIDE DEF h
<1>10. PICK c \in Nat :
         /\ c = Cardinality(V)
         /\ \E high : row = [from |-> from, start |-> start, highest |-> high, bids |-> c]
  BY <1>5, <1>8
<1>11. r = [from |-> from, start |-> start, highest |-> {h}, bids |-> c + 1]
  <2>1. PICK high : row = [from |-> from, start |-> start, highest |-> high, bids |-> c]
    BY <1>10
  <2>2. r \in [from : {from}, start : {start}, highest : {{h}}, bids : {c + 1}]
    BY <2>1
  <2> HIDE DEF r
  <2> QED BY <2>2
<1>12. AvailableRow(T, i, id) = r
  BY <1>7, <1>9, <1>10, <1>11
<1> QED BY <1>12 DEF r, h, row, bid, a, RowAfterBid

(* One transaction takes the table from what is right before it to what is *)
(* right after it.                                                         *)
LEMMA AvailableStep ==
  ASSUME NEW n \in Nat, NEW T \in Chains(n), NEW i \in 1 .. n
  PROVE  SeeAvailable(AvailableAt(T, i - 1), T[i]) = AvailableAt(T, i)
<1> DEFINE t == T[i]
           Created(j) == {a \in AuctionId : CreationsTo(T, j, a) # {}}
           Ended(j) == {a \in AuctionId : StopsTo(T, j, a) # {}}
           Rows(j) == [id \in Created(j) |-> AvailableRow(T, j, id)]
           v == AvailableAt(T, i - 1)
<1>1. v = [auctions |-> Rows(i - 1), ended |-> Ended(i - 1)]
      /\ AvailableAt(T, i) = [auctions |-> Rows(i), ended |-> Ended(i)]
  BY DEF AvailableAt
<1>2. t \in Tx /\ t.id \in AuctionId
  BY Kinds DEF Chains
<1>d. PICK d \in AuctionId : d = t.id
  BY <1>2
<1>3. ASSUME t \in Stop PROVE SeeAvailable(v, t) = AvailableAt(T, i)
  <2>1. ASSUME NEW id \in AuctionId
        PROVE  /\ CreationsTo(T, i, id) = CreationsTo(T, i - 1, id)
               /\ AvailableRow(T, i, id) = AvailableRow(T, i - 1, id)
               /\ StopsTo(T, i, id) =
                    StopsTo(T, i - 1, id) \cup (IF t.id = id THEN {i} ELSE {})
    <3>1. /\ CreationsTo(T, i, id) = CreationsTo(T, i - 1, id)
          /\ ValidTo(T, i, id) = ValidTo(T, i - 1, id)
          /\ StopsTo(T, i, id) =
               StopsTo(T, i - 1, id) \cup (IF t.id = id THEN {i} ELSE {})
      BY <1>3, AfterStop
    <3> QED BY <3>1 DEF AvailableRow
  <2>2. Rows(i) = Rows(i - 1)
    BY <2>1
  <2>3. Ended(i) = Ended(i - 1) \cup {t.id}
    BY <1>2, <2>1
  <2> DEFINE r == [v EXCEPT !.ended = @ \cup {t.id}]
  <2>4. SeeAvailable(v, t) = r
    BY <1>3 DEF SeeAvailable
  <2>5. r \in [auctions : {Rows(i - 1)}, ended : {Ended(i - 1) \cup {t.id}}]
    <3> HIDE DEF t, Ended, Rows, v
    <3> QED BY <1>1
  <2> HIDE DEF t, Ended, Rows, v, r
  <2> QED BY <1>1, <2>2, <2>3, <2>4, <2>5
<1>4. ASSUME t \in Create PROVE SeeAvailable(v, t) = AvailableAt(T, i)
  <2> DEFINE new == [from |-> t.from, start |-> t.amount, highest |-> {}, bids |-> 0]
  <2>1. ASSUME NEW id \in AuctionId
        PROVE  /\ StopsTo(T, i, id) = StopsTo(T, i - 1, id)
               /\ id # t.id => /\ CreationsTo(T, i, id) = CreationsTo(T, i - 1, id)
                               /\ AvailableRow(T, i, id) = AvailableRow(T, i - 1, id)
    <3>1. /\ StopsTo(T, i, id) = StopsTo(T, i - 1, id)
          /\ id # t.id => /\ CreationsTo(T, i, id) = CreationsTo(T, i - 1, id)
                          /\ ValidTo(T, i, id) = ValidTo(T, i - 1, id)
      BY <1>4, AfterCreate
    <3> QED BY <3>1 DEF AvailableRow
  <2>2. CreationsTo(T, i, t.id) # {} /\ AvailableRow(T, i, t.id) = new
    <3>1. /\ CreationsTo(T, i, d) # {} /\ Max(CreationsTo(T, i, d)) = i
          /\ ValidTo(T, i, d) = {}
      <4>1. T[i] \in Create /\ T[i].id = d
        BY <1>4, <1>d
      <4> QED BY <4>1, AfterOwnCreate, Zenon
    <3>2. Cardinality({}) = 0
      BY FS_EmptySet
    <3> QED BY <1>d, <3>1, <3>2 DEF AvailableRow
  <2>3. Ended(i) = Ended(i - 1)
    BY <2>1
  <2>4. Created(i) = Created(i - 1) \cup {t.id}
    BY <1>2, <2>1, <2>2
  <2>5. Rows(i) = Put(Rows(i - 1), t.id, new)
    <3>1. ASSUME NEW id \in Created(i)
          PROVE  AvailableRow(T, i, id) = IF id = t.id THEN new ELSE Rows(i - 1)[id]
      BY <2>1, <2>2, <2>4
    <3>2. DOMAIN Rows(i - 1) = Created(i - 1)
      OBVIOUS
    <3> HIDE DEF new, Created
    <3> QED BY <2>4, <3>1, <3>2 DEF Put
  <2>6. t \notin Stop
    BY <1>2, <1>4, Kinds DEF Chains
  <2> HIDE DEF t, Ended, Rows, v
  <2> QED BY <1>1, <1>4, <2>3, <2>5, <2>6 DEF SeeAvailable
<1>5. ASSUME t \in Bid PROVE SeeAvailable(v, t) = AvailableAt(T, i)
  <2>1. t \notin Stop /\ t \notin Create
    BY <1>2, <1>5, Kinds DEF Chains
  <2>2. \A id \in AuctionId :
          /\ CreationsTo(T, i, id) = CreationsTo(T, i - 1, id)
          /\ StopsTo(T, i, id) = StopsTo(T, i - 1, id)
    BY <1>5, AfterBid
  <2>3. Created(i) = Created(i - 1) /\ Ended(i) = Ended(i - 1)
    BY <2>2
  <2>4. Counts(v, t) <=> t.id \in Created(i - 1) /\ t.id \notin Ended(i - 1)
    BY <1>1, <1>5 DEF Counts
  <2>5. CASE Counts(v, t)
    <3> DEFINE row == AvailableRow(T, i - 1, d)
    <3>1. CreationsTo(T, i - 1, d) # {} /\ StopsTo(T, i - 1, d) = {} /\ d \in Created(i - 1)
      BY <1>d, <2>4, <2>5
    <3>2. AvailableRow(T, i, d) = RowAfterBid(row, T[i].amount)
      BY <1>5, <1>d, <3>1, AvailableRowAfterBid
    <3>3. ASSUME NEW id \in Created(i - 1), id # d
          PROVE  AvailableRow(T, i, id) = AvailableRow(T, i - 1, id)
      <4>1. /\ CreationsTo(T, i, id) = CreationsTo(T, i - 1, id)
            /\ ValidTo(T, i, id) = ValidTo(T, i - 1, id)
        <5>1. T[i] \in Bid /\ T[i].id # id
          BY <1>5, <1>d, <3>3
        <5> QED BY <5>1, AfterBid
      <4> QED BY <4>1 DEF AvailableRow
    <3>4. Rows(i) = [Rows(i - 1) EXCEPT ![d] = RowAfterBid(row, t.amount)]
      BY <2>3, <3>2, <3>3
    <3>5. v.auctions[d] = row /\ v.auctions = Rows(i - 1) /\ v.ended = Ended(i - 1)
      BY <1>1, <3>1
    <3>6. DOMAIN Rows(i - 1) = Created(i - 1)
      OBVIOUS
    <3> HIDE DEF row, v, Rows, Created, Ended
    <3> DEFINE bid == row.highest \cup {t.amount}
               h == {Max(IF row.highest = {} THEN bid \cup {row.start} ELSE bid)}
    <3>7. SeeAvailable(v, t) =
            [v EXCEPT !.auctions[d].highest = h, !.auctions[d].bids = @ + 1]
      BY <1>5, <1>d, <2>1, <2>5, <3>5 DEF SeeAvailable
    <3>8. RowAfterBid(row, t.amount) = [row EXCEPT !.highest = h, !.bids = @ + 1]
      BY DEF RowAfterBid
    <3> HIDE DEF h, t
    <3>9. [v EXCEPT !.auctions[d].highest = h, !.auctions[d].bids = @ + 1] =
            [v EXCEPT !.auctions = [Rows(i - 1) EXCEPT ![d] =
                                      [row EXCEPT !.highest = h, !.bids = @ + 1]]]
      BY <1>1, <3>1, <3>5, <3>6
    <3> DEFINE F == [Rows(i - 1) EXCEPT ![d] = [row EXCEPT !.highest = h, !.bids = @ + 1]]
               r == [v EXCEPT !.auctions = F]
    <3>10. r \in [auctions : {F}, ended : {Ended(i - 1)}]
      <4> HIDE DEF F
      <4> QED BY <1>1
    <3>11. r = [auctions |-> F, ended |-> Ended(i - 1)]
      <4> HIDE DEF F, r
      <4> QED BY <3>10
    <3> QED BY <1>1, <2>3, <3>4, <3>7, <3>8, <3>9, <3>11
  <2>6. CASE ~Counts(v, t)
    <3>1. ~(t.id \in Created(i - 1) /\ t.id \notin Ended(i - 1))
      BY <2>4, <2>6
    <3>2. ASSUME NEW id \in Created(i - 1)
          PROVE  AvailableRow(T, i, id) = AvailableRow(T, i - 1, id)
      <4>1. /\ CreationsTo(T, i, id) = CreationsTo(T, i - 1, id)
            /\ ValidTo(T, i, id) = ValidTo(T, i - 1, id)
        BY <1>2, <1>5, <3>1, AfterBid
      <4> QED BY <4>1 DEF AvailableRow
    <3>3. Rows(i) = Rows(i - 1)
      BY <2>3, <3>2
    <3> HIDE DEF t, Ended, Rows, v
    <3> QED BY <1>1, <2>1, <2>3, <2>6, <3>3 DEF SeeAvailable
  <2> QED BY <2>5, <2>6
<1> QED BY <1>2, <1>3, <1>4, <1>5 DEF Tx

(* The same for a row of the table of an account. *)
ProfileRowAfterBid(who, row, t) ==
  IF t.from = who
  THEN [row EXCEPT !.my  = {Max(@ \cup {t.amount})},
                   !.max = {Max(@ \cup row.my \cup {t.amount})},
                   !.bid = TRUE]
  ELSE [row EXCEPT !.max = {Max(@ \cup {t.amount})}]

(* It is what the row should say after the bid. *)
LEMMA ProfileRowIs ==
  ASSUME NEW n \in Nat, NEW T \in Chains(n), NEW i \in 1 .. n, T[i] \in Bid,
         NEW id, T[i].id = id, NEW who,
         CreationsTo(T, i - 1, id) # {}, StopsTo(T, i - 1, id) = {}
  PROVE  ProfileRow(T, i, who, id) =
           ProfileRowAfterBid(who, ProfileRow(T, i - 1, who, id), T[i])
<1> DEFINE V == ValidTo(T, i - 1, id)
           W == ValidByTo(T, i - 1, who, id)
           C == CreationsTo(T, i - 1, id)
           a == T[i].amount
           start == T[Max(C)].amount
           my == Greatest(T, W)
           max == Greatest(T, V)
           bid == W # {}
           row == ProfileRow(T, i - 1, who, id)
<1>1. CreationsTo(T, i, id) = C /\ ValidTo(T, i, id) = V \cup {i}
  BY AfterCountedBid
<1>2. ValidByTo(T, i, who, id) = IF T[i].from = who THEN W \cup {i} ELSE W
  BY <1>1 DEF ValidByTo
<1>3. /\ W \subseteq V /\ Priced(T, n, V) /\ Priced(T, n, W)
      /\ T[i].amount \in Nat
  <2>1. \A j \in V \cup {i} : j \in 1 .. n /\ T[j] \in Bid
    BY DEF ValidTo
  <2>2. W \subseteq V
    BY DEF ValidByTo
  <2> QED BY <2>1, <2>2, Kinds DEF Chains, Priced
<1>4. /\ {Max(max \cup {a})} = Greatest(T, V \cup {i})
      /\ {Max(max \cup my \cup {a})} = Greatest(T, V \cup {i})
      /\ {Max(my \cup {a})} = Greatest(T, W \cup {i})
  <2> HIDE DEF V, W
  <2>1. /\ Raise(Greatest(T, V), T[i].amount) = Greatest(T, With(V, i))
        /\ Raise(Greatest(T, V) \cup Greatest(T, W), T[i].amount) = Greatest(T, With(V, i))
    BY <1>3, GreatestInsert
  <2>2. Raise(Greatest(T, W), T[i].amount) = Greatest(T, With(W, i))
    <3>1. W \subseteq W
      OBVIOUS
    <3> QED BY <1>3, <3>1, GreatestInsert
  <2> QED BY <2>1, <2>2 DEF Raise, With
<1>5. row = [start |-> start, my |-> my, max |-> max, bid |-> bid]
  BY DEF ProfileRow
<1>6. CASE T[i].from = who
  <2>1. ProfileRow(T, i, who, id) =
          [start |-> start, my |-> {Max(my \cup {a})},
           max |-> {Max(max \cup my \cup {a})}, bid |-> TRUE]
    <3>1. (W \cup {i} # {}) = TRUE
      OBVIOUS
    <3> HIDE DEF W
    <3> QED BY <1>1, <1>2, <1>4, <1>6, <3>1 DEF ProfileRow
  <2> DEFINE mine == {Max(my \cup {a})}
             all == {Max(max \cup my \cup {a})}
             r == [row EXCEPT !.my = mine, !.max = all, !.bid = TRUE]
  <2>2. ProfileRowAfterBid(who, row, T[i]) = r
    <3>1. row.my = my /\ row.max = max
      BY <1>5
    <3> HIDE DEF row, my, max
    <3> QED BY <1>6, <3>1 DEF ProfileRowAfterBid
  <2>3. r \in [start : {start}, my : {mine}, max : {all}, bid : {TRUE}]
    <3> HIDE DEF row, my, max, a, start, bid, mine, all
    <3> QED BY <1>5
  <2>4. r = [start |-> start, my |-> mine, max |-> all, bid |-> TRUE]
    <3> HIDE DEF r, start, mine, all
    <3> QED BY <2>3
  <2> HIDE DEF r, a
  <2> QED BY <2>1, <2>2, <2>4 DEF mine, all
<1>7. CASE T[i].from # who
  <2>1. ProfileRow(T, i, who, id) =
          [start |-> start, my |-> my, max |-> {Max(max \cup {a})}, bid |-> bid]
    <3> HIDE DEF W, V
    <3> QED BY <1>1, <1>2, <1>4, <1>7 DEF ProfileRow
  <2> DEFINE all == {Max(max \cup {a})}
             r == [row EXCEPT !.max = all]
  <2>2. ProfileRowAfterBid(who, row, T[i]) = r
    <3>1. row.max = max
      BY <1>5
    <3> HIDE DEF row, my, max
    <3> QED BY <1>7, <3>1 DEF ProfileRowAfterBid
  <2>3. r \in [start : {start}, my : {my}, max : {all}, bid : {bid}]
    <3> HIDE DEF row, my, max, a, start, bid, all
    <3> QED BY <1>5
  <2>4. r = [start |-> start, my |-> my, max |-> all, bid |-> bid]
    <3> HIDE DEF r, start, my, all, bid
    <3> QED BY <2>3
  <2> HIDE DEF r, a
  <2> QED BY <2>1, <2>2, <2>4 DEF all
<1> QED BY <1>6, <1>7

(* The same for the table of an account. *)
LEMMA ProfileStep ==
  ASSUME NEW n \in Nat, NEW T \in Chains(n), NEW i \in 1 .. n, NEW who
  PROVE  SeeProfile(who, ProfileAt(T, i - 1, who), T[i]) = ProfileAt(T, i, who)
<1> DEFINE t == T[i]
           Created(j) == {a \in AuctionId : CreationsTo(T, j, a) # {}}
           Ended(j) == {a \in AuctionId : StopsTo(T, j, a) # {}}
           Rows(j) == [id \in Created(j) |-> ProfileRow(T, j, who, id)]
           v == ProfileAt(T, i - 1, who)
<1>1. v = [auctions |-> Rows(i - 1), ended |-> Ended(i - 1)]
      /\ ProfileAt(T, i, who) = [auctions |-> Rows(i), ended |-> Ended(i)]
  BY DEF ProfileAt
<1>2. t \in Tx /\ t.id \in AuctionId
  BY Kinds DEF Chains
<1>d. PICK d \in AuctionId : d = t.id
  BY <1>2
<1>3. ASSUME t \in Stop PROVE SeeProfile(who, v, t) = ProfileAt(T, i, who)
  <2>1. ASSUME NEW id \in AuctionId
        PROVE  /\ CreationsTo(T, i, id) = CreationsTo(T, i - 1, id)
               /\ ProfileRow(T, i, who, id) = ProfileRow(T, i - 1, who, id)
               /\ StopsTo(T, i, id) =
                    StopsTo(T, i - 1, id) \cup (IF t.id = id THEN {i} ELSE {})
    <3>1. /\ CreationsTo(T, i, id) = CreationsTo(T, i - 1, id)
          /\ ValidTo(T, i, id) = ValidTo(T, i - 1, id)
          /\ StopsTo(T, i, id) =
               StopsTo(T, i - 1, id) \cup (IF t.id = id THEN {i} ELSE {})
      BY <1>3, AfterStop
    <3>2. ValidByTo(T, i, who, id) = ValidByTo(T, i - 1, who, id)
      BY <3>1 DEF ValidByTo
    <3> QED BY <3>1, <3>2 DEF ProfileRow
  <2>2. Rows(i) = Rows(i - 1)
    BY <2>1
  <2>3. Ended(i) = Ended(i - 1) \cup {t.id}
    BY <1>2, <2>1
  <2> DEFINE r == [v EXCEPT !.ended = @ \cup {t.id}]
  <2>4. SeeProfile(who, v, t) = r
    BY <1>3 DEF SeeProfile
  <2>5. r \in [auctions : {Rows(i - 1)}, ended : {Ended(i - 1) \cup {t.id}}]
    <3> HIDE DEF t, Ended, Rows, v
    <3> QED BY <1>1
  <2> HIDE DEF t, Ended, Rows, v, r
  <2> QED BY <1>1, <2>2, <2>3, <2>4, <2>5
<1>4. ASSUME t \in Create PROVE SeeProfile(who, v, t) = ProfileAt(T, i, who)
  <2> DEFINE new == [start |-> t.amount, my |-> {}, max |-> {}, bid |-> FALSE]
  <2>1. ASSUME NEW id \in AuctionId
        PROVE  /\ StopsTo(T, i, id) = StopsTo(T, i - 1, id)
               /\ id # t.id => /\ CreationsTo(T, i, id) = CreationsTo(T, i - 1, id)
                               /\ ProfileRow(T, i, who, id) = ProfileRow(T, i - 1, who, id)
    <3>1. /\ StopsTo(T, i, id) = StopsTo(T, i - 1, id)
          /\ id # t.id => /\ CreationsTo(T, i, id) = CreationsTo(T, i - 1, id)
                          /\ ValidTo(T, i, id) = ValidTo(T, i - 1, id)
      BY <1>4, AfterCreate
    <3> QED BY <3>1 DEF ProfileRow, ValidByTo
  <2>2. CreationsTo(T, i, t.id) # {} /\ ProfileRow(T, i, who, t.id) = new
    <3>1. /\ CreationsTo(T, i, d) # {} /\ Max(CreationsTo(T, i, d)) = i
          /\ ValidTo(T, i, d) = {}
      <4>1. T[i] \in Create /\ T[i].id = d
        BY <1>4, <1>d
      <4> QED BY <4>1, AfterOwnCreate
    <3>2. ValidByTo(T, i, who, d) = {} /\ Greatest(T, {}) = {}
      BY <3>1 DEF ValidByTo, Greatest
    <3> QED BY <1>d, <3>1, <3>2 DEF ProfileRow
  <2>3. Ended(i) = Ended(i - 1)
    BY <2>1
  <2>4. Created(i) = Created(i - 1) \cup {t.id}
    BY <1>2, <2>1, <2>2
  <2>5. Rows(i) = Put(Rows(i - 1), t.id, new)
    <3>1. ASSUME NEW id \in Created(i)
          PROVE  ProfileRow(T, i, who, id) = IF id = t.id THEN new ELSE Rows(i - 1)[id]
      BY <2>1, <2>2, <2>4
    <3>2. DOMAIN Rows(i - 1) = Created(i - 1)
      OBVIOUS
    <3> HIDE DEF new, Created
    <3> QED BY <2>4, <3>1, <3>2 DEF Put
  <2>6. t \notin Stop
    BY <1>2, <1>4, Kinds
  <2> HIDE DEF t, Ended, Rows, v
  <2> QED BY <1>1, <1>4, <2>3, <2>5, <2>6 DEF SeeProfile
<1>5. ASSUME t \in Bid PROVE SeeProfile(who, v, t) = ProfileAt(T, i, who)
  <2>1. t \notin Stop /\ t \notin Create
    BY <1>2, <1>5, Kinds
  <2>2. \A id \in AuctionId :
          /\ CreationsTo(T, i, id) = CreationsTo(T, i - 1, id)
          /\ StopsTo(T, i, id) = StopsTo(T, i - 1, id)
    BY <1>5, AfterBid
  <2>3. Created(i) = Created(i - 1) /\ Ended(i) = Ended(i - 1)
    BY <2>2
  <2>4. Counts(v, t) <=> t.id \in Created(i - 1) /\ t.id \notin Ended(i - 1)
    BY <1>1, <1>5 DEF Counts
  <2>5. ASSUME NEW id \in Created(i - 1), id # d \/ ~Counts(v, t)
        PROVE  ProfileRow(T, i, who, id) = ProfileRow(T, i - 1, who, id)
    <3>1. /\ CreationsTo(T, i, id) = CreationsTo(T, i - 1, id)
          /\ ValidTo(T, i, id) = ValidTo(T, i - 1, id)
      <4>1. ~(T[i].id = id /\ CreationsTo(T, i - 1, id) # {} /\ StopsTo(T, i - 1, id) = {})
        BY <1>d, <2>4, <2>5
      <4>2. T[i] \in Bid
        BY <1>5
      <4> QED BY <4>1, <4>2, AfterBid
    <3> QED BY <3>1 DEF ProfileRow, ValidByTo
  <2>6. CASE Counts(v, t)
    <3> DEFINE row == ProfileRow(T, i - 1, who, d)
               new == ProfileRowAfterBid(who, row, t)
               F == [Rows(i - 1) EXCEPT ![d] = new]
               r == [v EXCEPT !.auctions = F]
    <3>1. CreationsTo(T, i - 1, d) # {} /\ StopsTo(T, i - 1, d) = {} /\ d \in Created(i - 1)
      BY <1>d, <2>4, <2>6
    <3>2. ProfileRow(T, i, who, d) = new
      BY <1>5, <1>d, <3>1, ProfileRowIs
    <3>4. Rows(i) = F
      <4> HIDE DEF new
      <4> QED BY <2>3, <2>5, <3>2
    <3>5. v.auctions[d] = row /\ v.auctions = Rows(i - 1) /\ v.ended = Ended(i - 1)
      BY <1>1, <3>1
    <3>6. DOMAIN Rows(i - 1) = Created(i - 1)
      OBVIOUS
    <3> HIDE DEF row, v, Rows, Created, Ended, new
    <3>7. SeeProfile(who, v, t) = [v EXCEPT !.auctions[d] = new]
      BY <1>5, <1>d, <2>1, <2>6, <3>5 DEF SeeProfile, new, ProfileRowAfterBid
    <3> HIDE DEF t
    <3>9. [v EXCEPT !.auctions[d] = new] = r
      BY <1>1, <3>1, <3>5, <3>6
    <3>10. r \in [auctions : {F}, ended : {Ended(i - 1)}]
      <4> HIDE DEF F
      <4> QED BY <1>1
    <3>11. r = [auctions |-> F, ended |-> Ended(i - 1)]
      <4> HIDE DEF F, r
      <4> QED BY <3>10
    <3> QED BY <1>1, <2>3, <3>4, <3>7, <3>9, <3>11
  <2>7. CASE ~Counts(v, t)
    <3>1. Rows(i) = Rows(i - 1)
      BY <2>3, <2>5, <2>7
    <3> HIDE DEF t, Ended, Rows, v
    <3> QED BY <1>1, <2>1, <2>3, <2>7, <3>1 DEF SeeProfile
  <2> QED BY <2>6, <2>7
<1> QED BY <1>2, <1>3, <1>4, <1>5 DEF Tx

(* Both tables at the end of a chain. *)
LEMMA TablesAtEnd ==
  ASSUME NEW n \in Nat, NEW T \in Chains(n)
  PROVE  /\ FoldLeft(SeeAvailable, Empty, T) = AvailableAt(T, n)
         /\ \A who : ProfileFold(who, T) = ProfileAt(T, n, who)
<1>1. DOMAIN T = 1 .. n
  BY DEF Chains
<1>2. \A who : AvailableAt(T, 0) = Empty /\ ProfileAt(T, 0, who) = Empty
  <2>1. \A id : CreationsTo(T, 0, id) = {} /\ StopsTo(T, 0, id) = {}
    BY DEF CreationsTo, StopsTo
  <2>2. \A who : /\ AvailableAt(T, 0) = [auctions |-> [id \in {} |-> AvailableRow(T, 0, id)],
                                         ended |-> {}]
                 /\ ProfileAt(T, 0, who) = [auctions |-> [id \in {} |-> ProfileRow(T, 0, who, id)],
                                            ended |-> {}]
    BY <2>1 DEF AvailableAt, ProfileAt
  <2>3. [id \in {} |-> AvailableRow(T, 0, id)] = <<>>
    OBVIOUS
  <2>4. \A who : [id \in {} |-> ProfileRow(T, 0, who, id)] = <<>>
    OBVIOUS
  <2> QED BY <2>2, <2>3, <2>4 DEF Empty
<1>3. FoldLeft(SeeAvailable, Empty, T) = AvailableAt(T, n)
  <2>1. PICK w : /\ w[0] = Empty
                 /\ \A i \in 1 .. n : w[i] = SeeAvailable(w[i - 1], T[i])
                 /\ w[n] = FoldLeft(SeeAvailable, Empty, T)
    BY <1>1, AvailableSteps
  <2> DEFINE D == {i \in 0 .. n : w[i] = AvailableAt(T, i)}
  <2>z. 0 \in 0 .. n
    OBVIOUS
  <2>2. 0 \in D
    BY <1>2, <2>1, <2>z
  <2>3. ASSUME NEW i \in 1 .. n, i - 1 \in D PROVE i \in D
    <3>1. w[i] = AvailableAt(T, i)
      BY <2>1, <2>3, AvailableStep
    <3> QED BY <3>1
  <2> HIDE DEF D
  <2>4. \A i \in 0 .. n : i \in D
    BY <2>2, <2>3, UpTo
  <2> QED BY <2>1, <2>4 DEF D
<1>4. ASSUME NEW who
      PROVE  ProfileFold(who, T) = ProfileAt(T, n, who)
  <2>1. PICK w : /\ w[0] = Empty
                 /\ \A i \in 1 .. n : w[i] = SeeProfile(who, w[i - 1], T[i])
                 /\ w[n] = ProfileFold(who, T)
    BY <1>1, ProfileSteps
  <2> DEFINE D == {i \in 0 .. n : w[i] = ProfileAt(T, i, who)}
  <2>z. 0 \in 0 .. n
    OBVIOUS
  <2>2. 0 \in D
    BY <1>2, <2>1, <2>z
  <2>3. ASSUME NEW i \in 1 .. n, i - 1 \in D PROVE i \in D
    <3>1. w[i] = ProfileAt(T, i, who)
      BY <2>1, <2>3, ProfileStep
    <3> QED BY <3>1
  <2> HIDE DEF D
  <2>4. \A i \in 0 .. n : i \in D
    BY <2>2, <2>3, UpTo
  <2> QED BY <2>1, <2>4 DEF D
<1> QED BY <1>3, <1>4

-----------------------------------------------------------------------------
(* The chain that the client walks *)

(* The inductive invariant. *)
BlocksOK == blocks \in Seq(Seq(Tx))

(* Every block that a step adds to, or adds, is one of transactions. *)
LEMMA BlocksStayOK ==
  /\ ViewsInit => BlocksOK
  /\ BlocksOK /\ [ViewsNext]_blocks => BlocksOK'
<1>1. ViewsInit => BlocksOK
  BY EmptySeq DEF ViewsInit, BlocksOK
<1>2. ASSUME BlocksOK, NEW t \in Tx, Extend(t) PROVE BlocksOK'
  <2>1. CASE blocks' = Append(blocks, <<t>>)
    <3>1. <<t>> \in Seq(Tx)
      OBVIOUS
    <3> QED BY <1>2, <2>1, <3>1, AppendProperties DEF BlocksOK
  <2>2. CASE blocks # <<>> /\ blocks' = [blocks EXCEPT ![Len(blocks)] = Append(@, t)]
    <3>1. Len(blocks) \in 1 .. Len(blocks)
      BY <1>2, <2>2, EmptySeq, LenProperties DEF BlocksOK
    <3>2. blocks[Len(blocks)] \in Seq(Tx)
      BY <1>2, <3>1, ElementOfSeq DEF BlocksOK
    <3>3. Append(blocks[Len(blocks)], t) \in Seq(Tx)
      BY <3>2, AppendProperties
    <3> QED BY <1>2, <2>2, <3>1, <3>3, ExceptSeq DEF BlocksOK
  <2> QED BY <1>2, <2>1, <2>2 DEF Extend
<1>3. BlocksOK /\ UNCHANGED blocks => BlocksOK'
  BY DEF BlocksOK
<1> QED BY <1>1, <1>2, <1>3 DEF ViewsNext, Tx

(* A sequence of blocks flattens to a sequence of transactions. *)
LEMMA FlattenTyped ==
  ASSUME NEW X, NEW bs \in Seq(Seq(X))
  PROVE  FlattenSeq(bs) \in Seq(X)
<1>1. PICK w : IsFlattening(w, bs) /\ w[Len(bs)] = FlattenSeq(bs)
  BY FlattenSteps
<1>2. Len(bs) \in 0 .. Len(bs)
  BY LenProperties
<1> QED BY <1>1, <1>2, FlatteningHas

(* What looks at the whole chain looks at it up to its last position. *)
LEMMA WholeChain ==
  ASSUME BlocksOK
  PROVE  \E n \in Nat :
           /\ Transactions \in Chains(n)
           /\ Transactions \in Seq(Tx)
           /\ \A id : /\ Creations(id) = CreationsTo(Transactions, n, id)
                      /\ Stops(id) = StopsTo(Transactions, n, id)
                      /\ Valid(id) = ValidTo(Transactions, n, id)
                      /\ \A who : ValidBy(who, id) = ValidByTo(Transactions, n, who, id)
           /\ \A W : Amounts(W) = AmountsOf(Transactions, W)
<1>1. Transactions \in Seq(Tx)
  BY FlattenTyped DEF BlocksOK, Transactions
<1>2. PICK n \in Nat : n = Len(Transactions) /\ DOMAIN Transactions = 1 .. n
                       /\ Transactions \in Chains(n)
  BY <1>1, LenProperties DEF Chains
<1>3. ASSUME NEW id
      PROVE  /\ Creations(id) = CreationsTo(Transactions, n, id)
             /\ Stops(id) = StopsTo(Transactions, n, id)
  BY <1>2 DEF Creations, Stops, CreationsTo, StopsTo, At
<1>4. ASSUME NEW id
      PROVE  Valid(id) = ValidTo(Transactions, n, id)
  BY <1>2, <1>3 DEF Valid, ValidTo, At
<1>5. ASSUME NEW id, NEW who
      PROVE  ValidBy(who, id) = ValidByTo(Transactions, n, who, id)
  BY <1>4 DEF ValidBy, ValidByTo, At
<1>6. \A W : Amounts(W) = AmountsOf(Transactions, W)
  BY DEF Amounts, AmountsOf, At
<1> QED BY <1>1, <1>2, <1>3, <1>4, <1>5, <1>6

(* The table of all auctions, in the words of the property. *)
LEMMA AvailableTable ==
  ASSUME BlocksOK
  PROVE  /\ DOMAIN Available.auctions = {id \in AuctionId : Creations(id) # {}}
         /\ \A id \in AuctionId : Creations(id) # {} =>
              Available.auctions[id] =
                [from    |-> At(Max(Creations(id))).from,
                 start   |-> At(Max(Creations(id))).amount,
                 highest |-> IF Valid(id) = {} THEN {}
                             ELSE {Max(Amounts(Valid(id)) \cup {At(Max(Creations(id))).amount})},
                 bids    |-> Cardinality(Valid(id))]
<1>1. PICK n \in Nat :
           /\ Transactions \in Chains(n)
           /\ \A id : /\ Creations(id) = CreationsTo(Transactions, n, id)
                      /\ Valid(id) = ValidTo(Transactions, n, id)
           /\ \A W : Amounts(W) = AmountsOf(Transactions, W)
  BY WholeChain
<1>2. Available = AvailableAt(Transactions, n)
  BY <1>1, TablesAtEnd DEF Available
<1>3. Available.auctions =
        [id \in {a \in AuctionId : CreationsTo(Transactions, n, a) # {}} |->
                   AvailableRow(Transactions, n, id)]
  BY <1>2 DEF AvailableAt
<1>4. ASSUME NEW id \in AuctionId, Creations(id) # {}
      PROVE  Available.auctions[id] = AvailableRow(Transactions, n, id)
  BY <1>1, <1>3, <1>4
<1> HIDE <1>3
<1>5. \A id : AvailableRow(Transactions, n, id) =
                [from    |-> At(Max(Creations(id))).from,
                 start   |-> At(Max(Creations(id))).amount,
                 highest |-> IF Valid(id) = {} THEN {}
                             ELSE {Max(Amounts(Valid(id)) \cup {At(Max(Creations(id))).amount})},
                 bids    |-> Cardinality(Valid(id))]
  BY <1>1 DEF AvailableRow, At
<1>6. DOMAIN Available.auctions = {id \in AuctionId : Creations(id) # {}}
  BY <1>1, <1>3
<1> QED BY <1>4, <1>5, <1>6

(* The table of all auctions agrees with the chain. *)
LEMMA AvailableHolds ==
  ASSUME BlocksOK
  PROVE  AvailableIsRight
<1> SUFFICES ASSUME NEW id \in DOMAIN Available.auctions
             PROVE  LET row == Available.auctions[id]
                        opening == At(Max(Creations(id)))
                    IN  /\ row.from = opening.from /\ row.start = opening.amount
                        /\ row.bids = Cardinality(Valid(id))
                        /\ row.highest = IF Valid(id) = {} THEN {}
                                         ELSE {Max(Amounts(Valid(id)) \cup {row.start})}
  BY AvailableTable DEF AvailableIsRight
<1>1. id \in AuctionId /\ Creations(id) # {}
  BY AvailableTable
<1> DEFINE opening == At(Max(Creations(id)))
           highest == IF Valid(id) = {} THEN {}
                      ELSE {Max(Amounts(Valid(id)) \cup {opening.amount})}
<1>2. Available.auctions[id] =
        [from |-> opening.from, start |-> opening.amount, highest |-> highest,
         bids |-> Cardinality(Valid(id))]
  BY <1>1, AvailableTable
<1>3. /\ Available.auctions[id].from = opening.from
      /\ Available.auctions[id].start = opening.amount
      /\ Available.auctions[id].highest = highest
      /\ Available.auctions[id].bids = Cardinality(Valid(id))
  <2> HIDE DEF opening, highest
  <2> QED BY <1>2
<1> QED BY <1>3

(* AvailableAuctions::new(): whatever is on the chain and however it is cut *)
(* into blocks, the table of all auctions shows for each who created it     *)
(* last, its start amount, how many bids count and the highest of them.     *)
THEOREM AllAuctionsAreShown == ViewsSpec => []AvailableIsRight
<1>1. BlocksOK => AvailableIsRight
  BY AvailableHolds
<1> QED BY <1>1, BlocksStayOK, PTL DEF ViewsSpec


(* The table of an account, in the words of the property. *)
LEMMA ProfileTable ==
  ASSUME BlocksOK, NEW who
  PROVE  /\ DOMAIN Profile(who).auctions = {id \in AuctionId : Creations(id) # {}}
         /\ \A id \in AuctionId : Creations(id) # {} =>
              /\ Profile(who).auctions[id].start = At(Max(Creations(id))).amount
              /\ Profile(who).auctions[id].my = Greatest(Transactions, ValidBy(who, id))
              /\ Profile(who).auctions[id].max = Greatest(Transactions, Valid(id))
              /\ Profile(who).auctions[id].bid = (ValidBy(who, id) # {})
<1>1. PICK n \in Nat :
           /\ Transactions \in Chains(n)
           /\ \A id : /\ Creations(id) = CreationsTo(Transactions, n, id)
                      /\ Valid(id) = ValidTo(Transactions, n, id)
                      /\ ValidBy(who, id) = ValidByTo(Transactions, n, who, id)
  BY WholeChain
<1>2. Profile(who) = ProfileAt(Transactions, n, who)
  <2>1. ProfileFold(who, Transactions) = ProfileAt(Transactions, n, who)
    BY <1>1, TablesAtEnd
  <2> QED BY <2>1 DEF Profile, ProfileFold
<1>3. Profile(who).auctions =
        [id \in {a \in AuctionId : CreationsTo(Transactions, n, a) # {}} |->
                   ProfileRow(Transactions, n, who, id)]
  BY <1>2 DEF ProfileAt
<1>4. DOMAIN Profile(who).auctions = {id \in AuctionId : Creations(id) # {}}
  BY <1>1, <1>3
<1>5. ASSUME NEW id \in AuctionId, Creations(id) # {}
      PROVE  /\ Profile(who).auctions[id].start = At(Max(Creations(id))).amount
             /\ Profile(who).auctions[id].my = Greatest(Transactions, ValidBy(who, id))
             /\ Profile(who).auctions[id].max = Greatest(Transactions, Valid(id))
             /\ Profile(who).auctions[id].bid = (ValidBy(who, id) # {})
  <2> DEFINE start == Transactions[Max(Creations(id))].amount
             my == Greatest(Transactions, ValidBy(who, id))
             max == Greatest(Transactions, Valid(id))
             bid == ValidBy(who, id) # {}
  <2>1. Profile(who).auctions[id] = ProfileRow(Transactions, n, who, id)
    BY <1>1, <1>3, <1>5
  <2>2. ProfileRow(Transactions, n, who, id) =
          [start |-> start, my |-> my, max |-> max, bid |-> bid]
    BY <1>1 DEF ProfileRow
  <2> HIDE DEF start, my, max, bid
  <2>3. /\ Profile(who).auctions[id].start = start
        /\ Profile(who).auctions[id].my = my
        /\ Profile(who).auctions[id].max = max
        /\ Profile(who).auctions[id].bid = bid
    BY <2>1, <2>2
  <2> QED BY <2>3 DEF start, my, max, bid, At
<1> QED BY <1>4, <1>5

(* What is added to the amounts of an auction by its start amount. *)
LEMMA StartOrBid ==
  ASSUME BlocksOK, NEW id, Valid(id) # {}, Creations(id) # {}
  PROVE  /\ Max(Amounts(Valid(id))) \in Nat
         /\ Max({Max(Amounts(Valid(id)))}) = Max(Amounts(Valid(id)))
         /\ Max(Amounts(Valid(id))) >= At(Max(Creations(id))).amount
              => Max(Amounts(Valid(id)) \cup {At(Max(Creations(id))).amount}) =
                   Max(Amounts(Valid(id)))
<1>1. PICK n \in Nat :
           /\ Transactions \in Chains(n)
           /\ Creations(id) = CreationsTo(Transactions, n, id)
           /\ Valid(id) = ValidTo(Transactions, n, id)
           /\ \A W : Amounts(W) = AmountsOf(Transactions, W)
  BY WholeChain
<1>2. Priced(Transactions, n, Valid(id))
  <2>1. \A j \in Valid(id) : j \in 1 .. n /\ Transactions[j] \in Bid
    BY <1>1 DEF ValidTo
  <2> QED BY <1>1, <2>1, Kinds DEF Chains, Priced
<1>3. At(Max(Creations(id))).amount \in Nat
  <2>1. Creations(id) \subseteq 1 .. n
    BY <1>1 DEF CreationsTo
  <2>2. Max(Creations(id)) \in Creations(id)
    BY <2>1, MaxUpTo
  <2>3. Max(Creations(id)) \in 1 .. n /\ Transactions[Max(Creations(id))] \in Create
    BY <1>1, <2>1, <2>2 DEF CreationsTo
  <2> QED BY <1>1, <2>3, Kinds DEF Chains, At
<1>4. HasMax(Amounts(Valid(id)))
  BY <1>1, <1>2, AmountsHaveMax
<1> DEFINE A == Amounts(Valid(id))
           start == At(Max(Creations(id))).amount
<1>5. A \subseteq Nat /\ HasMax(A) /\ start \in Nat
  BY <1>3, <1>4 DEF HasMax
<1> HIDE DEF A, start
<1>6. PICK m \in A : m = Max(A) /\ m \in Nat /\ \A x \in A : m >= x
  BY <1>5, MaxOf
<1>7. Max({m}) = m
  <2>1. {m} \subseteq Nat /\ m \in {m} /\ \A x \in {m} : m >= x
    BY <1>6
  <2> QED BY <2>1, MaxIs
<1>8. m >= start => Max(A \cup {start}) = m
  <2> SUFFICES ASSUME m >= start PROVE Max(A \cup {start}) = m
    OBVIOUS
  <2>1. A \cup {start} \subseteq Nat /\ m \in A \cup {start} /\ \A x \in A \cup {start} : m >= x
    BY <1>5, <1>6
  <2> QED BY <2>1, MaxIs
<1> QED BY <1>6, <1>7, <1>8 DEF A, start

(* The table of an account agrees with the chain, and with the other table. *)
LEMMA ProfileHolds ==
  ASSUME BlocksOK
  PROVE  ProfileIsRight
<1>1. ASSUME NEW who, NEW id, ValidBy(who, id) # {}
      PROVE  Valid(id) # {} /\ Creations(id) # {}
  BY <1>1 DEF ValidBy, Valid
<1>2. ASSUME NEW who \in PublicKey
      PROVE  ProfileRows(who) = {id \in AuctionId : ValidBy(who, id) # {}}
  <2>1. \A id \in DOMAIN Profile(who).auctions :
          Profile(who).auctions[id].bid <=> ValidBy(who, id) # {}
    <3>1. \A id \in DOMAIN Profile(who).auctions : id \in AuctionId /\ Creations(id) # {}
      BY ProfileTable
    <3>2. \A id \in DOMAIN Profile(who).auctions :
            Profile(who).auctions[id].bid = (ValidBy(who, id) # {})
      BY <3>1, ProfileTable
    <3> QED BY <3>2, Zenon
  <2> QED BY <1>1, <2>1, ProfileTable DEF ProfileRows
<1>3. ASSUME NEW who \in PublicKey, NEW id \in ProfileRows(who)
      PROVE  /\ Profile(who).auctions[id].my = {Max(Amounts(ValidBy(who, id)))}
             /\ Profile(who).auctions[id].max = {Max(Amounts(Valid(id)))}
             /\ Max(Profile(who).auctions[id].max) >= Profile(who).auctions[id].start =>
                  Profile(who).auctions[id].max = Available.auctions[id].highest
  <2>1. id \in AuctionId /\ ValidBy(who, id) # {} /\ Valid(id) # {} /\ Creations(id) # {}
    BY <1>1, <1>2, <1>3
  <2>2. \A W : Amounts(W) = AmountsOf(Transactions, W)
    BY WholeChain
  <2>3. /\ Profile(who).auctions[id].my = {Max(Amounts(ValidBy(who, id)))}
        /\ Profile(who).auctions[id].max = {Max(Amounts(Valid(id)))}
        /\ Profile(who).auctions[id].start = At(Max(Creations(id))).amount
    BY <2>1, <2>2, ProfileTable DEF Greatest
  <2>4. Available.auctions[id].highest =
          {Max(Amounts(Valid(id)) \cup {At(Max(Creations(id))).amount})}
    <3> DEFINE opening == At(Max(Creations(id)))
               highest == {Max(Amounts(Valid(id)) \cup {opening.amount})}
    <3>1. Available.auctions[id] =
            [from |-> opening.from, start |-> opening.amount, highest |-> highest,
             bids |-> Cardinality(Valid(id))]
      BY <2>1, AvailableTable
    <3>2. Available.auctions[id].highest = highest
      <4> HIDE DEF opening, highest
      <4> QED BY <3>1
    <3> QED BY <3>2
  <2>5. /\ Max({Max(Amounts(Valid(id)))}) = Max(Amounts(Valid(id)))
        /\ Max(Amounts(Valid(id))) >= At(Max(Creations(id))).amount
              => Max(Amounts(Valid(id)) \cup {At(Max(Creations(id))).amount}) =
                   Max(Amounts(Valid(id)))
    BY <2>1, StartOrBid
  <2> QED BY <2>3, <2>4, <2>5
<1> QED BY <1>2, <1>3 DEF ProfileIsRight

(* ProfileBids::new(): the table of every account shows the auctions it has *)
(* a bid on that counts, its highest bid and everybody's, and it agrees     *)
(* with the table of all auctions from the start amount on.                 *)
THEOREM ProfilesAreRight == ViewsSpec => []ProfileIsRight
<1>1. BlocksOK => ProfileIsRight
  BY ProfileHolds
<1> QED BY <1>1, BlocksStayOK, PTL DEF ViewsSpec


-----------------------------------------------------------------------------
(* The form that submits a bid *)

(* What the transactions up to i let be the highest amount. *)
Covers(T, i, id, amount, highest) ==
  highest # {} =>
    \E x \in Nat :
      /\ highest = {x} /\ x >= amount
      /\ \A j \in 1 .. i :
           /\ ~(T[j] \in Stop /\ T[j].id = id)
           /\ (T[j] \in Bid /\ T[j].id = id) \/ T[j] \in Create => x >= T[j].amount

(* What covered the transactions before one covers it too after the step. *)
LEMMA BidStep ==
  ASSUME NEW n \in Nat, NEW T \in Chains(n), NEW i \in 1 .. n, NEW id, NEW amount \in Nat,
         NEW highest, Covers(T, i - 1, id, amount, highest)
  PROVE  Covers(T, i, id, amount, SeeBid(id, highest, T[i]))
<1>1. CASE highest = {} \/ (T[i] \in Stop /\ T[i].id = id)
  BY <1>1 DEF Covers, SeeBid
<1>2. CASE ~(highest = {} \/ (T[i] \in Stop /\ T[i].id = id))
  <2>1. PICK x \in Nat :
          /\ highest = {x} /\ x >= amount
          /\ \A j \in 1 .. i - 1 :
               /\ ~(T[j] \in Stop /\ T[j].id = id)
               /\ (T[j] \in Bid /\ T[j].id = id) \/ T[j] \in Create => x >= T[j].amount
    BY <1>2 DEF Covers
  <2>2. \A j \in 1 .. i : j \in 1 .. i - 1 \/ j = i
    OBVIOUS
  <2>3. \A j \in 1 .. i - 1 : T[j] \in Bid \/ T[j] \in Create => T[j].amount \in Nat
    BY Kinds DEF Chains
  <2>4. CASE (T[i] \in Bid /\ T[i].id = id) \/ T[i] \in Create
    <3>1. PICK a \in Nat : a = T[i].amount
      BY <2>4, Kinds DEF Chains
    <3>2. PICK y \in {x, a} : y >= x /\ y >= a /\ y \in Nat
      BY <3>1
    <3>3. Max({x} \cup {a}) = y
      <4>1. {x} \cup {a} \subseteq Nat /\ y \in {x} \cup {a} /\ \A z \in {x} \cup {a} : y >= z
        BY <3>1, <3>2
      <4> QED BY <4>1, MaxIs
    <3>4. SeeBid(id, highest, T[i]) = {y}
      BY <1>2, <2>1, <2>4, <3>1, <3>3 DEF SeeBid
    <3>5. y >= amount
      BY <2>1, <3>2
    <3>6. ASSUME NEW j \in 1 .. i
          PROVE  /\ ~(T[j] \in Stop /\ T[j].id = id)
                 /\ (T[j] \in Bid /\ T[j].id = id) \/ T[j] \in Create => y >= T[j].amount
      <4>1. CASE j = i
        BY <1>2, <3>1, <3>2, <4>1
      <4>2. CASE j \in 1 .. i - 1
        BY <2>1, <2>3, <3>2, <4>2
      <4> QED BY <2>2, <4>1, <4>2
    <3> QED BY <3>2, <3>4, <3>5, <3>6 DEF Covers
  <2>5. CASE ~((T[i] \in Bid /\ T[i].id = id) \/ T[i] \in Create)
    <3>1. SeeBid(id, highest, T[i]) = highest
      BY <1>2, <2>5 DEF SeeBid
    <3>2. ASSUME NEW j \in 1 .. i
          PROVE  /\ ~(T[j] \in Stop /\ T[j].id = id)
                 /\ (T[j] \in Bid /\ T[j].id = id) \/ T[j] \in Create => x >= T[j].amount
      BY <1>2, <2>1, <2>2, <2>5
    <3> QED BY <2>1, <3>1, <3>2 DEF Covers
  <2> QED BY <2>4, <2>5
<1> QED BY <1>1, <1>2

(* The fold covers all of a chain. *)
LEMMA BidWalk ==
  ASSUME NEW n \in Nat, NEW T \in Chains(n), NEW id, NEW amount \in Nat
  PROVE  Covers(T, n, id, amount, BidFold(id, {amount}, T))
<1>1. PICK w : /\ w[0] = {amount}
               /\ \A i \in 1 .. n : w[i] = SeeBid(id, w[i - 1], T[i])
               /\ w[n] = BidFold(id, {amount}, T)
  <2>1. DOMAIN T = 1 .. n
    BY DEF Chains
  <2> QED BY <2>1, BidSteps
<1> DEFINE D == {i \in 0 .. n : Covers(T, i, id, amount, w[i])}
<1>2. 0 \in D
  <2>1. Covers(T, 0, id, amount, w[0])
    BY <1>1 DEF Covers
  <2>2. 0 \in 0 .. n
    OBVIOUS
  <2> QED BY <2>1, <2>2
<1>3. ASSUME NEW i \in 1 .. n, i - 1 \in D PROVE i \in D
  <2>1. Covers(T, i - 1, id, amount, w[i - 1])
    BY <1>3
  <2>2. Covers(T, i, id, amount, w[i])
    BY <1>1, <2>1, BidStep
  <2> QED BY <2>2
<1> HIDE DEF D
<1>4. \A i \in 0 .. n : i \in D
  BY <1>2, <1>3, UpTo
<1> QED BY <1>1, <1>4 DEF D

(* The part of the chain that the form looks at has every creation of the  *)
(* auction.                                                                *)
LEMMA OpeningCut ==
  ASSUME BlocksOK, NEW id, FromOpening(id) # <<>>
  PROVE  \E pre \in Seq(Tx) :
           /\ Transactions = pre \o FromOpening(id)
           /\ FromOpening(id) \in Seq(Tx)
           /\ \A t \in ToSet(pre) : ~(t \in Create /\ t.id = id)
           /\ \E t \in ToSet(FromOpening(id)) : t \in Create /\ t.id = id
<1> DEFINE opens == {i \in 1 .. Len(blocks) :
                       \E t \in ToSet(blocks[i]) : t \in Create /\ t.id = id}
<1>1. opens # {} /\ FromOpening(id) = FlattenSeq(SubSeq(blocks, Min(opens), Len(blocks)))
  BY DEF FromOpening
<1>2. PICK m \in opens : m = Min(opens) /\ \A i \in opens : m <= i
  <2>1. opens \subseteq Nat
    OBVIOUS
  <2>2. \E j \in opens : \A i \in opens : j <= i
    <3> HIDE DEF opens
    <3> QED BY <1>1, <2>1, LeastElement
  <2> QED BY <2>2 DEF Min
<1>3. m \in 1 .. Len(blocks) /\ blocks \in Seq(Seq(Tx)) /\ Len(blocks) \in Nat
  BY LenProperties DEF BlocksOK
<1>4. PICK pre \in Seq(Tx) :
           /\ FlattenSeq(blocks) = pre \o FlattenSeq(SubSeq(blocks, m, Len(blocks)))
           /\ FlattenSeq(SubSeq(blocks, m, Len(blocks))) \in Seq(Tx)
           /\ ToSet(pre) = InFirst(blocks, m - 1)
           /\ ToSet(blocks[m]) \subseteq ToSet(FlattenSeq(SubSeq(blocks, m, Len(blocks))))
  BY <1>3, FlattenCut
<1>5. ASSUME NEW t \in ToSet(pre), t \in Create, t.id = id PROVE FALSE
  <2>1. PICK b \in 1 .. m - 1 : t \in ToSet(blocks[b])
    BY <1>4 DEF InFirst
  <2>2. b \in opens
    BY <1>3, <1>5, <2>1
  <2>3. m \in Nat /\ m <= b
    <3> HIDE DEF opens
    <3> QED BY <1>2, <1>3, <2>2
  <2> QED BY <2>1, <2>3
<1>6. \E t \in ToSet(FromOpening(id)) : t \in Create /\ t.id = id
  BY <1>1, <1>2, <1>4
<1> QED BY <1>1, <1>2, <1>4, <1>5, <1>6 DEF Transactions

(* The form submits what covers all that it has looked at, and that is all *)
(* that matters to the auction.                                            *)
LEMMA SubmittedHolds ==
  ASSUME BlocksOK
  PROVE  SubmittedMayWin
<1> SUFFICES ASSUME NEW id \in AuctionId, NEW amount \in Amount,
                    Submit(id, amount) = "Submitted"
             PROVE  /\ Creations(id) # {}
                    /\ \A i \in Stops(id) : i < Min(Creations(id))
                    /\ \A a \in Amounts(Valid(id)) : amount >= a
                    /\ amount >= At(Max(Creations(id))).amount
  BY DEF SubmittedMayWin
<1> DEFINE C == FromOpening(id)
           T == Transactions
<1>1. /\ C # <<>>
      /\ BidFold(id, {amount}, C) # {}
      /\ ~(Max(BidFold(id, {amount}, C)) > amount)
  BY DEF Submit, BidFold
<1>2. PICK pre \in Seq(Tx) :
           /\ T = pre \o C
           /\ C \in Seq(Tx)
           /\ \A t \in ToSet(pre) : ~(t \in Create /\ t.id = id)
           /\ \E t \in ToSet(C) : t \in Create /\ t.id = id
  BY <1>1, OpeningCut
<1>3. PICK p \in Nat, c \in Nat :
           /\ p = Len(pre) /\ c = Len(C)
           /\ DOMAIN pre = 1 .. p /\ DOMAIN C = 1 .. c /\ DOMAIN T = 1 .. p + c
           /\ C \in Chains(c)
           /\ \A i \in 1 .. p : T[i] = pre[i]
           /\ \A i \in 1 .. c : T[p + i] = C[i]
  <2>1. /\ Len(pre) \in Nat /\ DOMAIN pre = 1 .. Len(pre)
        /\ Len(C) \in Nat /\ DOMAIN C = 1 .. Len(C)
        /\ C \in [1 .. Len(C) -> Tx]
    BY <1>2, LenProperties
  <2>2. /\ T \in Seq(Tx) /\ Len(T) = Len(pre) + Len(C)
        /\ \A i \in 1 .. Len(pre) : T[i] = pre[i]
        /\ \A i \in 1 .. Len(C) : T[Len(pre) + i] = C[i]
    <3> HIDE DEF C, T
    <3> QED BY <1>2, ConcatProperties
  <2>3. DOMAIN T = 1 .. Len(pre) + Len(C)
    BY <2>2, LenProperties
  <2> HIDE DEF C, T
  <2> QED BY <2>1, <2>2, <2>3 DEF Chains
<1> HIDE DEF C, T
<1>4. amount \in Nat
  BY AmountAssumption
<1>5. \A j \in 1 .. c :
           /\ ~(C[j] \in Stop /\ C[j].id = id)
           /\ (C[j] \in Bid /\ C[j].id = id) \/ C[j] \in Create => amount >= C[j].amount
  <2>1. Covers(C, c, id, amount, BidFold(id, {amount}, C))
    BY <1>3, <1>4, BidWalk
  <2>2. PICK x \in Nat :
          /\ BidFold(id, {amount}, C) = {x} /\ x >= amount
          /\ \A j \in 1 .. c :
               /\ ~(C[j] \in Stop /\ C[j].id = id)
               /\ (C[j] \in Bid /\ C[j].id = id) \/ C[j] \in Create => x >= C[j].amount
    BY <1>1, <2>1 DEF Covers
  <2>3. Max({x}) = x
    <3>1. {x} \subseteq Nat /\ x \in {x} /\ \A y \in {x} : x >= y
      OBVIOUS
    <3> QED BY <3>1, MaxIs
  <2>4. Max(BidFold(id, {amount}, C)) = x
    BY <2>2, <2>3
  <2>5. x = amount
    <3>1. ~(x > amount)
      BY <1>1, <2>4
    <3> QED BY <1>4, <2>2, <3>1
  <2> QED BY <2>2, <2>5
<1>6. \A i \in 1 .. p : ~(T[i] \in Create /\ T[i].id = id)
  BY <1>2, <1>3 DEF ToSet
<1>7. \A i \in 1 .. p + c : i \in 1 .. p \/ (i - p \in 1 .. c /\ T[i] = C[i - p])
  <2>1. \A i \in 1 .. p + c : i \in 1 .. p \/ (i - p \in 1 .. c /\ p + (i - p) = i)
    BY <1>3
  <2> QED BY <1>3, <2>1
<1>8. /\ Creations(id) = {i \in 1 .. p + c : T[i] \in Create /\ T[i].id = id}
      /\ Stops(id) = {i \in 1 .. p + c : T[i] \in Stop /\ T[i].id = id}
      /\ \A i \in Valid(id) : /\ i \in 1 .. p + c
                              /\ T[i] \in Bid /\ T[i].id = id
                              /\ i > Max(Creations(id))
  BY <1>3 DEF Creations, Stops, Valid, At, T
<1>9. Creations(id) # {}
  <2>1. PICK j \in 1 .. c : C[j] \in Create /\ C[j].id = id
    BY <1>2, <1>3 DEF ToSet
  <2>2. p + j \in 1 .. p + c /\ T[p + j] = C[j]
    BY <1>3, <2>1
  <2> QED BY <1>8, <2>1, <2>2
<1>10. \A i \in Creations(id) : i \in 1 .. p + c /\ i > p /\ i - p \in 1 .. c
                                /\ T[i] = C[i - p] /\ T[i] \in Create
  BY <1>3, <1>6, <1>7, <1>8
<1>11. \A i \in Stops(id) : i \in 1 .. p
  BY <1>5, <1>7, <1>8
<1>12. Min(Creations(id)) \in Creations(id)
  <2>1. Creations(id) \subseteq Nat
    BY <1>8
  <2>2. \E j \in Creations(id) : \A i \in Creations(id) : j <= i
    BY <1>9, <2>1, LeastElement
  <2> QED BY <2>2 DEF Min
<1>13. Max(Creations(id)) \in Creations(id)
  <2>1. Creations(id) \subseteq 1 .. p + c /\ p + c \in Nat
    BY <1>3, <1>8
  <2> QED BY <1>9, <2>1, MaxUpTo
<1>14. \A i \in Stops(id) : i < Min(Creations(id))
  BY <1>3, <1>10, <1>11, <1>12
<1>15. amount >= At(Max(Creations(id))).amount
  BY <1>5, <1>10, <1>13 DEF At, T
<1>16. \A a \in Amounts(Valid(id)) : amount >= a
  <2>1. ASSUME NEW i \in Valid(id) PROVE amount >= At(i).amount
    <3>1. Max(Creations(id)) > p /\ Max(Creations(id)) \in 1 .. p + c
      BY <1>10, <1>13
    <3>2. i \in 1 .. p + c /\ i > Max(Creations(id)) /\ T[i] \in Bid /\ T[i].id = id
      BY <1>8, <2>1
    <3>3. i - p \in 1 .. c /\ T[i] = C[i - p]
      BY <1>3, <1>7, <3>1, <3>2
    <3> QED BY <1>5, <3>2, <3>3 DEF At, T
  <2> QED BY <2>1 DEF Amounts
<1> QED BY <1>9, <1>14, <1>15, <1>16

(* The try_fold of the form: a bid is only submitted for an auction that    *)
(* was created and not stopped since, and it is not below its start amount  *)
(* or a bid that counts, although the form only looks at the chain from the *)
(* block that auction_exists names.                                         *)
THEOREM SubmittedBidsMayWin == ViewsSpec => []SubmittedMayWin
<1>1. BlocksOK => SubmittedMayWin
  BY SubmittedHolds
<1> QED BY <1>1, BlocksStayOK, PTL DEF ViewsSpec
=============================================================================
