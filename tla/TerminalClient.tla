--------------------------- MODULE TerminalClient ----------------------------
(***************************************************************************)
(* The terminal client (bin/app.rs): its screens, one after the other, and *)
(* what it needs to know of the node.  LogKeys asks for a key pair and     *)
(* opens the dashboard if the node knows the account; GenKeys makes a key  *)
(* pair and registers it, then goes back to LogKeys.                       *)
(*                                                                         *)
(* Abstracted: a key pair is one key; the private text of LogKeys, which   *)
(* is only checked not to be empty; the clipboard.  The node answers       *)
(* SUCCESSFUL only for a transaction it has executed (TransactionRpc:      *)
(* SuccessMeansExecuted), and accounts stay (WorldState).  Whether it can  *)
(* be reached is free at every request.                                    *)
(***************************************************************************)
EXTENDS Dashboard

CONSTANTS Key, NoKey

ASSUME NoKeyAssumption == NoKey \notin Key

VARIABLES
  screen,
  public, private,  \* LogKeys: the texts, private only as empty or not
  generated,        \* GenKeys: the key pair shown
  field, message,   \* of LogKeys or GenKeys: the focus, whether there is a popup
  account,          \* Dashboard: the public key of the user
  minted,           \* the key pairs made so far
  pending,          \* registrations the node may still execute
  registered        \* the accounts of the node

keys == <<public, private, generated, field, message, account>>
node == <<pending, registered>>
vars == <<dashboard, screen, keys, minted, node>>

KeyFields == {"PublicKey", "PrivateKey", "GenerateKey"}

Init ==
  /\ page = "Auctions" /\ area = "Body" /\ selected = 0
  /\ form = [f \in Forms |-> NewForm]
  /\ popup = [t \in Tables |-> FALSE] /\ panicked = FALSE
  /\ screen = "LogKeys"
  /\ public = NoKey /\ private = FALSE /\ generated = NoKey
  /\ field = "PublicKey" /\ message = FALSE
  /\ account = NoKey
  /\ minted = {} /\ pending = {}
  /\ registered \in SUBSET Key

-----------------------------------------------------------------------------
(* Both screens with keys *)

(* toggle_up() and toggle_down() *)
Up   == IF field = "GenerateKey" THEN "PrivateKey" ELSE "PublicKey"
Down == IF field = "PublicKey" THEN "PrivateKey" ELSE "GenerateKey"

MoveFocus ==
  /\ screen \in {"LogKeys", "GenKeys"}
  /\ field' \in {Up, Down}
  /\ UNCHANGED <<dashboard, screen, public, private, generated, message, account,
                 minted, node>>

ClosePopup ==
  /\ screen \in {"LogKeys", "GenKeys"}
  /\ message /\ message' = FALSE
  /\ UNCHANGED <<dashboard, screen, public, private, generated, field, account,
                 minted, node>>

(* GenKeys::new(), from either screen: a key pair nobody has. *)
Generate ==
  /\ screen \in {"LogKeys", "GenKeys"}
  /\ ~message /\ field = "GenerateKey"
  /\ generated' \in Key \ (minted \cup registered)
  /\ minted' = minted \cup {generated'}
  /\ screen' = "GenKeys"
  /\ field' = "PublicKey"
  /\ UNCHANGED <<dashboard, public, private, message, account, node>>

(* The popup that tells that a request failed. *)
Fail ==
  /\ message' = TRUE
  /\ UNCHANGED <<dashboard, screen, public, private, generated, field, account,
                 minted>>

-----------------------------------------------------------------------------
(* LogKeys *)

TypeKey ==
  /\ screen = "LogKeys"
  /\ \/ field = "PublicKey" /\ public' \in minted \cup registered \cup {NoKey}
        /\ UNCHANGED private
     \/ field = "PrivateKey" /\ private' \in BOOLEAN /\ UNCHANGED public
  /\ UNCHANGED <<dashboard, screen, generated, field, message, account, minted, node>>

Ready ==
  /\ screen = "LogKeys"
  /\ ~message /\ field # "GenerateKey"
  /\ public # NoKey /\ private

(* Mutant: any answer will do. *)
LogIn_AnyAnswer ==
  /\ Ready
  /\ account' = public
  /\ screen' = "Dashboard"
  /\ \E none \in [Tables -> BOOLEAN] : NewDashboard(none)
  /\ UNCHANGED <<public, private, generated, field, message, minted, node>>

(* account_exists() answered with a nonce. *)
LogIn ==
  /\ Ready
  /\ public \in registered
  /\ account' = public
  /\ screen' = "Dashboard"
  /\ \E none \in [Tables -> BOOLEAN] : NewDashboard(none)
  /\ UNCHANGED <<public, private, generated, field, message, minted, node>>

(* It answered without one, or not at all. *)
LogInFails == Ready /\ Fail /\ UNCHANGED node

-----------------------------------------------------------------------------
(* GenKeys *)

CanRegister == screen = "GenKeys" /\ ~message /\ field # "GenerateKey"

(* The account was created: LogKeys with both texts filled in. *)
Register ==
  /\ CanRegister
  /\ generated \notin registered
  /\ registered' = registered \cup {generated}
  /\ screen' = "LogKeys"
  /\ public' = generated /\ private' = TRUE
  /\ field' = "PublicKey"
  /\ UNCHANGED <<dashboard, generated, message, account, minted, pending>>

(* The node was not reached, refused, or its answer was lost: then the     *)
(* transaction may still be executed.                                      *)
RegisterFails ==
  /\ CanRegister
  /\ Fail
  /\ pending' \in {pending, pending \cup {generated}}
  /\ UNCHANGED registered

-----------------------------------------------------------------------------

ExecuteRegistration(k) ==
  /\ k \in pending
  /\ pending' = pending \ {k}
  /\ registered' = registered \cup {k}
  /\ UNCHANGED <<dashboard, screen, keys, minted>>

HandleDashboard ==
  /\ screen = "Dashboard"
  /\ HandleKey
  /\ UNCHANGED <<screen, keys, minted, node>>

(* ^X, on any screen; nothing follows. *)
Quit ==
  /\ screen # "Bye" /\ ~panicked
  /\ screen' = "Bye"
  /\ UNCHANGED <<dashboard, keys, minted, node>>

Next ==
  \/ MoveFocus
  \/ ClosePopup
  \/ Generate
  \/ TypeKey
  \/ LogIn
  \/ LogInFails
  \/ Register
  \/ RegisterFails
  \/ \E k \in Key : ExecuteRegistration(k)
  \/ HandleDashboard
  \/ Quit

Spec == Init /\ [][Next]_vars
-----------------------------------------------------------------------------

(* The screens have their types. *)
TypeOK ==
  /\ DashboardTypeOK
  /\ screen \in {"LogKeys", "GenKeys", "Dashboard", "Bye"}
  /\ {public, generated, account} \subseteq Key \cup {NoKey}
  /\ field \in KeyFields /\ {private, message} \subseteq BOOLEAN
  /\ minted \subseteq Key /\ pending \subseteq minted /\ registered \subseteq Key

(* Whoever uses the dashboard has an account on the node, so the nonce     *)
(* that every form asks for before it signs is found.                      *)
DashboardHasAccount == screen = "Dashboard" => account \in registered

(* Who is sent back from GenKeys finds the keys that were shown filled in, *)
(* and they are those of an account by now: the next Enter logs in unless  *)
(* the node is not reached.                                                *)
KeysCarriedOver ==
  [][screen = "GenKeys" /\ screen' = "LogKeys" =>
       public' = generated /\ private' /\ public' \in registered']_vars
=============================================================================
