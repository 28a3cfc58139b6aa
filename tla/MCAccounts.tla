----------------------------- MODULE MCAccounts -----------------------------
(* An instance of Accounts for TLC. *)
EXTENDS Accounts, TLC

CONSTANTS password, google, address, r1, r2

SameAddress == [c \in {password, google} |-> address]
\* People come back after a withdrawal; images are replaced; facts change and
\* profiles are read while a user withdraws.
SmallScopes == {
    [handlers |-> {"signup", "login", "refresh", "logout", "withdraw"},
     users |-> 2, files |-> 0, changes |-> 0],
    [handlers |-> {"signup", "image", "clear", "profile", "withdraw"},
     users |-> 1, files |-> 3, changes |-> 0],
    [handlers |-> {"signup", "power", "facts", "withdraw"},
     users |-> 1, files |-> 0, changes |-> 1]}
=============================================================================
