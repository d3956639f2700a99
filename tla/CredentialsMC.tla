---------------------------- MODULE CredentialsMC ----------------------------
(* Three passwords a user can type; one of them changes in a form body.    *)
EXTENDS Credentials, TLC
CONSTANTS label, plain, special, escaped, nothing

ThePasswords == {label, plain, special}
TheTexts == ThePasswords \union {escaped}
TheForm == (label :> label) @@ (plain :> plain) @@ (special :> escaped)
=============================================================================
