------------------------------ MODULE MCEntries ------------------------------
(* Instances of Entries for TLC. *)
EXTENDS Entries

CONSTANTS p1, p2, r1, r2

Login(p, r) == [kind |-> "login", pw |-> p, rest |-> r]
Passkey(r)  == [kind |-> "passkey", pw |-> NoPassword, rest |-> r]

\* One entry: a login with one password or another, with one set of notes or another, or
\* what is left of it when only its passkey is.
Logins   == {Login(p1, r1), Login(p1, r2), Login(p2, r1)}
AllForms == [a |-> Logins \cup {Passkey(r1)}]
AsLogin  == [a |-> Logins]

=============================================================================
