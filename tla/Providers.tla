------------------------------ MODULE Providers ------------------------------
(***************************************************************************)
(* What a provider says of the address of an account, and what the client  *)
(* for that provider (oauth/providers) makes of it.  A request that fails  *)
(* and an answer without a token or an id throw, before anything is read   *)
(* or written; display names and avatars are left out.                     *)
(***************************************************************************)
CONSTANT None

Providers == {"google", "github", "microsoft", "discord",
              "facebook", "linkedin", "twitter", "apple"}

(* An account at a provider: its address, whether its holder confirmed it  *)
(* there, and a second address, which was not confirmed.                   *)
AccountsOver(Addresses) ==
    [address : Addresses, confirmed : BOOLEAN, spare : Addresses \cup {None}]

(* How a flag may be written: a boolean, a string, or not at all. *)
AsBoolean(flag) == IF flag THEN {"true"} ELSE {"false", "absent"}
AsText(flag) == IF flag THEN {"true", "'true'"} ELSE {"false", "'false'", "absent"}

Row(email, primary, verified) == [email |-> email, primary |-> primary, verified |-> verified]

OwnRows(account) == {Row(account.address, primary, account.confirmed) : primary \in BOOLEAN}
SpareRows(account) ==
    IF account.spare = None THEN {} ELSE {Row(account.spare, FALSE, FALSE)}

(* GitHub's /user/emails: it may fail, which is as good as an empty list.  *)
(* The order is GitHub's, and one address is primary or none is.           *)
Lists(account) ==
    {<<>>} \cup {<<row>> : row \in OwnRows(account) \cup SpareRows(account)}
    \cup {<<row, other>> : row \in OwnRows(account), other \in SpareRows(account)}
    \cup {<<other, row>> : row \in OwnRows(account), other \in SpareRows(account)}

(* The answers of a provider.  The user may keep the address from the      *)
(* application.  Microsoft and Facebook are taken at the word of their     *)
(* clients' comments: they give an address only if it is confirmed.        *)
Told(name, account) ==
    LET Says(names, emails, flags, lists) ==
            {a \in [email : emails, flag : flags, list : lists] : name \in names}
        address == account.address
    IN  Says(Providers, {None}, {"absent"}, {<<>>})
        \cup Says({"google", "discord"}, {address}, AsBoolean(account.confirmed), {<<>>})
        \cup Says({"linkedin", "apple"}, {address}, AsText(account.confirmed), {<<>>})
        \cup Says(IF account.confirmed THEN {"microsoft", "facebook"} ELSE {},
                  {address}, {"absent"}, {<<>>})
        \cup Says({"github"}, {None, address}, {"absent"}, Lists(account))

-------------------------------------------------------------------------------
Profile(email, verified) == [email |-> email, verified |-> verified]

googleProfile(a) == Profile(a.email, a.flag = "true")

(* The primary address of a list, or else the first. *)
Preferred(list) ==
    LET primaries == {i \in DOMAIN list : list[i].primary}
    IN  list[IF primaries = {} THEN 1 ELSE CHOOSE i \in primaries : TRUE]

(* Without a list it is the public address, of which nothing is known. *)
githubProfile(a) ==
    IF a.list = <<>> THEN Profile(a.email, FALSE)
    ELSE Profile(Preferred(a.list).email, Preferred(a.list).verified)

microsoftProfile(a) == Profile(a.email, a.email # None)
discordProfile(a) == Profile(a.email, a.email # None /\ a.flag = "true")
facebookProfile(a) == Profile(a.email, a.email # None)
linkedinProfile(a) == Profile(a.email, a.flag \in {"true", "'true'"})
twitterProfile(a) == Profile(None, FALSE)
appleProfile(a) == Profile(a.email, a.flag \in {"true", "'true'"})

exchangeCode(name, a) ==
    [google    |-> googleProfile(a),    github   |-> githubProfile(a),
     microsoft |-> microsoftProfile(a), discord  |-> discordProfile(a),
     facebook  |-> facebookProfile(a),  linkedin |-> linkedinProfile(a),
     twitter   |-> twitterProfile(a),   apple    |-> appleProfile(a)][name]

(* The profiles that a sign-in with an account may bring. *)
ProfilesOf(name, account) == {exchangeCode(name, a) : a \in Told(name, account)}
===============================================================================
