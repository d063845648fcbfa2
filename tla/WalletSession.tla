---------------------------- MODULE WalletSession ----------------------------
(***************************************************************************)
(* WalletStore implements Session: the refinement mapping.                 *)
(***************************************************************************)
EXTENDS WalletStore

(* The pair openSavedWallet would use, once no form is half done.          *)
sessionBinding ==
  IF Settled THEN <<defaults.walletFile, keychain>> ELSE <<>>

sessionActive == IF wallet = 0 THEN <<>> ELSE engine[wallet].file

(* A handler that has assigned the wallet is past its screen: what it has  *)
(* left to do is to dispatch a block and to dismiss the form.              *)
sessionPlace ==
  CASE main = "async" -> IF screen = "login" THEN "door" ELSE "inside"
    [] main # "async" /\ screen = "appearing" -> "door"
    [] main # "async" /\ screen = "login" -> "login"
    [] OTHER -> "inside"

S == INSTANCE Session WITH None <- <<>>, binding <- sessionBinding,
                           active <- sessionActive, place <- sessionPlace

(* Every step of the application - of a screen, a half of a handler, a     *)
(* late block, a refresh thread, a kill - is a step of Session or changes  *)
(* nothing there.                                                          *)
ImplementsSession == S!Spec
=============================================================================
