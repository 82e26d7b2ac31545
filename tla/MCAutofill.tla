----------------------------- MODULE MCAutofill -----------------------------
(* An instance of Autofill for TLC: a registry's suffix co.uk, a shop and   *)
(* its mail below it.  One entry was saved for the shop's login page and    *)
(* used on its mail, the other for the suffix itself, and may become a      *)
(* passkey of the shop.                                                     *)
EXTENDS Autofill

CONSTANTS c1, c2

MCConns == {c1, c2}
MCIds == {1, 2}
Shop == <<"shop", "co", "uk">>
MCPages == {[scheme |-> "https", host |-> <<"www">> \o Shop],
            [scheme |-> "https", host |-> <<"mail">> \o Shop],
            [scheme |-> "http", host |-> Shop]}
MCNumeric == {"9"}
MCGuard == {<<"co", "uk">>}
MCNested == {Shop}   \* a suffix of three labels below a name that is none
Record(domain, sites, kind) ==
  [domain |-> domain, sites |-> sites, kind |-> kind, internal |-> FALSE,
   recently_deleted |-> FALSE]
MCVersions ==
  (1 :> {Record(<<"login", "shop", "co", "uk", "">>, {<<"mail">> \o Shop}, "login")}) @@
  (2 :> {Record(<<"co", "uk">>, {}, "login"), Record(<<"co", "uk">>, {Shop}, "passkey")})

(* The instance with the nested suffix is the one that lacks the premise.   *)
ASSUME HostsAssumption == PlainHosts <=> Guard = MCGuard

Symmetric == Permutations(MCConns)

=============================================================================
