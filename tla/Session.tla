------------------------------- MODULE Session -------------------------------
(***************************************************************************)
(* What WalletStore and the screens around it promise the user: the        *)
(* application is bound to one wallet file and its password at most, for   *)
(* good once it is; its forms are reachable only while it is not; and past *)
(* them every session runs on the wallet it is bound to.  The stores, the  *)
(* threads and the handlers of the code are abstracted away; module        *)
(* WalletSession shows that WalletStore implements this.                   *)
(***************************************************************************)
CONSTANTS
  Files,      \* names of wallet files
  Passwords,  \* passwords of wallet files
  None        \* no binding, or no wallet

VARIABLES
  binding,    \* the file and password a launch will find, or None
  active,     \* the file of the wallet in use, or None
  place       \* before the door, in the forms of the login screen, inside

vars == <<binding, active, place>>

Bindings == (Files \X Passwords) \cup {None}

Init ==
  /\ binding = None
  /\ active = None
  /\ place = "door"

(* openSavedWallet finds nothing and the login screen is presented.        *)
Login ==
  /\ place = "door" /\ binding = None
  /\ place' = "login"
  /\ UNCHANGED <<binding, active>>

(* A form adopts a wallet under the name typed.  It binds the application  *)
(* to that name, if the file is there and the form saved a password.       *)
Choose(f) ==
  /\ place = "login" /\ binding = None
  /\ binding' \in {None} \cup ({f} \X Passwords)
  /\ active' = f
  /\ place' = "door"

(* The saved wallet is opened (again), on every way to the tab bar.        *)
Enter ==
  /\ place = "door" /\ binding # None
  /\ active' = binding[1]
  /\ place' = "inside"
  /\ UNCHANGED binding

(* A screen that covered the tab bar is left.                              *)
Leave ==
  /\ place = "inside"
  /\ place' = "door"
  /\ UNCHANGED <<binding, active>>

(* The process is killed and launched again.  In the middle of a form the  *)
(* half that was written may already bind it.                              *)
Kill ==
  /\ binding' \in IF place = "login" /\ binding = None THEN Bindings
                  ELSE {binding}
  /\ active' = None
  /\ place' = "door"

Next ==
  \/ Login
  \/ \E f \in Files : Choose(f)
  \/ Enter
  \/ Leave
  \/ Kill

Spec == Init /\ [][Next]_vars
=============================================================================
