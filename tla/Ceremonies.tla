----------------------------- MODULE Ceremonies -----------------------------
(***************************************************************************)
(* Signing in, and adding a way to sign in, by way of somebody else: an    *)
(* authenticator (passkeys.service.ts) or a provider (oauth.controller.ts, *)
(* handleCallback).  The server keeps nothing between the two halves of a  *)
(* ceremony: it signs a token (jwt.ts) that says what the second half must *)
(* match, and leaves it in a cookie that all tabs of the browser share.    *)
(* A request is a process; its answer, with its cookies, may come late or  *)
(* never.                                                                  *)
(***************************************************************************)
EXTENDS Naturals, FiniteSets

CONSTANTS Tabs, Users, Keys, Requests, Nobody,
          counted,      \* keys whose authenticator counts its signatures
          MaxTokens,    \* bound on the ceremonies of a behaviour
          MaxRequests   \* bound on the requests that end one, or remove a key

ASSUME NobodyIsNone == Nobody \notin Users \cup Keys
ASSUME CountedAreKeys == counted \subseteq Keys
ASSUME CountsAreNatural == {MaxTokens, MaxRequests} \subseteq Nat

VARIABLES
    token,      \* the tokens signed so far
    cookie,     \* authkit_webauthn and authkit_oauth_state: the token in each
    tab,        \* whom a tab is signed in as, its ceremony, and what the
                \* authenticator signed for it
    passkey,    \* passkeys
    device,     \* the counter of each authenticator
    pc, job,    \* the requests in flight
    begun,      \* requests so far
    opened,     \* history: the signatures that opened a session, and those that
                \* opened another
    reopened,
    accepted,   \* history: the callbacks accepted with a state
    overlapped  \* history: tokens and keys with two requests in flight at once,
                \* and tokens whose answer was lost

server == <<token, passkey>>
browser == <<cookie, tab, device>>
past == <<opened, reopened, accepted, overlapped>>
ceremonyVars == <<server, browser, pc, job, begun, past>>

Tokens == 1 .. MaxTokens
Purposes == {"register", "authenticate", "login", "link"}
WebAuthn == {"register", "authenticate"}

NoToken == [purpose |-> "none", user |-> Nobody, post |-> FALSE]
NoPasskey == [state |-> "none", owner |-> Nobody, token |-> 0, counter |-> 0]
NoSignature == [token |-> 0, key |-> Nobody, count |-> 0]
Job(op, t, u, c, state, signature) ==
    [op |-> op, tab |-> t, user |-> u, cookie |-> c, state |-> state, signature |-> signature,
     counter |-> 0]
NoJob == Job("none", Nobody, Nobody, 0, 0, NoSignature)

Counts == 0 .. MaxTokens  \* a signature for each ceremony
Signatures == [token : Tokens, key : Keys, count : Counts] \cup {NoSignature}
Signed(n) == token[n].purpose # "none"

CeremonyTypeOK ==
    /\ token \in [Tokens -> [purpose : Purposes \cup {"none"}, user : Users \cup {Nobody},
                             post : BOOLEAN]]
    /\ \A n \in Tokens : token[n].purpose \in {"register", "link"} => token[n].user # Nobody
    /\ cookie \in [{"webauthn", "oauth"} -> 0 .. MaxTokens]
    /\ \A c \in DOMAIN cookie : cookie[c] # 0 =>
          Signed(cookie[c]) /\ (token[cookie[c]].purpose \in WebAuthn <=> c = "webauthn")
    /\ tab \in [Tabs -> [user : Users \cup {Nobody}, ceremony : 0 .. MaxTokens,
                         signature : Signatures]]
    /\ passkey \in [Keys -> [state : {"none", "active", "deleted"}, owner : Users \cup {Nobody},
                             token : 0 .. MaxTokens, counter : Counts]]
    /\ \A k \in Keys : passkey[k].counter <= device[k] /\ (k \notin counted => device[k] = 0)
    /\ device \in [Keys -> Counts]
    /\ pc \in [Requests -> {"idle", "arrived", "update", "issue", "delete", "answer"}]
    /\ \A r \in Requests : pc[r] = "idle" <=> job[r] = NoJob
    /\ begun \in 0 .. MaxRequests
    /\ opened \cup reopened \subseteq Signatures
    /\ overlapped \subseteq Tokens \cup Keys

CeremonyInit ==
    /\ token = [n \in Tokens |-> NoToken]
    /\ cookie = [webauthn |-> 0, oauth |-> 0]
    /\ tab \in [Tabs -> [user : Users \cup {Nobody}, ceremony : {0}, signature : {NoSignature}]]
    /\ \E old \in SUBSET counted, u \in Users : \* passkeys registered earlier
          passkey = [k \in Keys |-> IF k \in old
                                    THEN [state |-> "active", owner |-> u, token |-> 0,
                                          counter |-> 0]
                                    ELSE NoPasskey]
    /\ device = [k \in Keys |-> 0]
    /\ pc = [r \in Requests |-> "idle"]
    /\ job = [r \in Requests |-> NoJob]
    /\ begun = 0
    /\ opened = {} /\ reopened = {}
    /\ accepted = [n \in Tokens |-> 0]
    /\ overlapped = {}

-------------------------------------------------------------------------------
(* The first half: the server signs a token, for the user of the tab if    *)
(* the ceremony adds a way to sign in; the answer sets the cookie, and the *)
(* tab goes to the authenticator or to the provider.                       *)
Begin(t, n, purpose, user, post) ==
    LET c == IF purpose \in WebAuthn THEN "webauthn" ELSE "oauth"
    IN  /\ ~Signed(n) /\ (\A m \in 1 .. n - 1 : Signed(m))
        /\ token' = [token EXCEPT ![n] = [purpose |-> purpose, user |-> user, post |-> post]]
        /\ cookie' = [cookie EXCEPT ![c] = n]
        /\ tab' = [tab EXCEPT ![t].ceremony = n, ![t].signature = NoSignature]
        /\ UNCHANGED <<passkey, device, pc, job, begun, past>>

registrationOptions(t, n) ==
    tab[t].user # Nobody /\ Begin(t, n, "register", tab[t].user, FALSE)

(* With an address, the token names a user too, whom nothing reads. *)
authenticationOptions(t, n) == Begin(t, n, "authenticate", Nobody, FALSE)

getLoginUrl(t, n) == \E post \in BOOLEAN : Begin(t, n, "login", Nobody, post)

getLinkUrl(t, n) ==
    /\ tab[t].user # Nobody
    /\ \E post \in BOOLEAN : Begin(t, n, "link", tab[t].user, post)

(* The authenticator signs the challenge, and counts the signature.  A new *)
(* key is made for a registration.                                         *)
Sign(t, k) ==
    LET n == tab[t].ceremony
    IN  /\ n # 0
        /\ tab[t].signature = NoSignature
        /\ \/ token[n].purpose = "register" /\ passkey[k].state = "none"
           \/ token[n].purpose = "authenticate" /\ passkey[k].state # "none"
        /\ device' = IF k \in counted THEN [device EXCEPT ![k] = @ + 1] ELSE device
        /\ tab' = [tab EXCEPT ![t].signature = [token |-> n, key |-> k, count |-> device'[k]]]
        /\ UNCHANGED <<server, cookie, pc, job, begun, past>>

(* Another user signs in to the tab, or its user signs out. *)
SwitchUser(t) ==
    /\ \E u \in Users \cup {Nobody} : tab' = [tab EXCEPT ![t].user = u]
    /\ UNCHANGED <<server, cookie, device, pc, job, begun, past>>

-------------------------------------------------------------------------------
(* The second half is a request with what the tab brings back and with the *)
(* cookie; a form posted by the provider comes without it.  The tab may    *)
(* send it again: the user is impatient, or reloads the callback.          *)
About(j) == ({j.signature.token, j.state} \cap Tokens) \cup ({j.signature.key} \cap Keys)

Send(r, j) ==
    /\ pc[r] = "idle"
    /\ begun < MaxRequests
    /\ begun' = begun + 1
    /\ pc' = [pc EXCEPT ![r] = "arrived"]
    /\ job' = [job EXCEPT ![r] = j]
    /\ overlapped' = overlapped \cup UNION {About(job[q]) \cap About(j) : q \in Requests}
    /\ UNCHANGED <<server, browser, opened, reopened, accepted>>

SendSignature(r, t) ==
    /\ tab[t].signature # NoSignature
    /\ token[tab[t].ceremony].purpose = "register" => tab[t].user # Nobody
    /\ Send(r, Job(token[tab[t].ceremony].purpose, t, tab[t].user, cookie["webauthn"], 0,
                   tab[t].signature))

SendCallback(r, t) ==
    LET n == tab[t].ceremony
    IN  /\ n # 0 /\ token[n].purpose \in {"login", "link"}
        /\ Send(r, Job("callback", t, Nobody, IF token[n].post THEN 0 ELSE cookie["oauth"], n,
                       NoSignature))

SendRemoval(r, t, k) ==
    /\ tab[t].user # Nobody
    /\ Send(r, Job("remove", t, tab[t].user, 0, 0, [token |-> 0, key |-> k, count |-> 0]))

-------------------------------------------------------------------------------
(* The server. *)
At(r, step, op) == pc[r] = step /\ job[r].op = op /\ UNCHANGED <<begun, overlapped>>
Goto(r, step) == pc' = [pc EXCEPT ![r] = step]
Finish(r) == Goto(r, "idle") /\ job' = [job EXCEPT ![r] = NoJob]
Refuse(r) == Finish(r) /\ UNCHANGED <<server, browser, opened, reopened, accepted>>

(* verifyWebAuthnChallenge, and the library: the token is the cookie's,    *)
(* for this purpose, and what was signed is its challenge.  Tokens expire, *)
(* so any second half may be refused.                                      *)
ChallengeMet(j, purpose) ==
    /\ j.cookie # 0
    /\ token[j.cookie].purpose = purpose
    /\ j.signature.token = j.cookie

MetByAnyUser(j) == ChallengeMet(j, "register")
RegistrationMet(j) == ChallengeMet(j, "register") /\ token[j.cookie].user = j.user

verifyRegistration(r) ==
    LET j == job[r]
        k == j.signature.key
        met == RegistrationMet(j) /\ passkey[k].state = "none" \* the credential id is unique
    IN  /\ At(r, "arrived", "register")
        /\ \/ Refuse(r)
           \/ /\ met
              /\ passkey' = [passkey EXCEPT ![k] = [state |-> "active", owner |-> j.user,
                                                   token |-> j.cookie,
                                                   counter |-> j.signature.count]]
              /\ Goto(r, "answer")
              /\ UNCHANGED <<token, browser, job, opened, reopened, accepted>>

(* verifyAuthentication reads the passkey ... *)
readPasskey(r) ==
    LET j == job[r]
        found == ChallengeMet(j, "authenticate") /\ passkey[j.signature.key].state = "active"
    IN  /\ At(r, "arrived", "authenticate")
        /\ \/ Refuse(r)
           \/ /\ found
              /\ Goto(r, "update")
              /\ job' = [job EXCEPT ![r].counter = passkey[j.signature.key].counter]
              /\ UNCHANGED <<server, browser, opened, reopened, accepted>>

(* ... and the library compares the counters, unless both are 0. *)
AnyCount(j) == TRUE
CountMet(j) == j.signature.count > j.counter \/ (j.signature.count = 0 /\ j.counter = 0)

updateCounter(r) ==
    LET k == job[r].signature.key
        met == CountMet(job[r]) /\ passkey[k].state = "active"
    IN  /\ At(r, "update", "authenticate")
        /\ \/ ~met /\ Refuse(r)
           \/ /\ met
              /\ passkey' = [passkey EXCEPT ![k].counter = job[r].signature.count]
              /\ Goto(r, "issue")
              /\ UNCHANGED <<token, browser, job, opened, reopened, accepted>>

issueSession(r) ==
    LET signature == job[r].signature
    IN  /\ At(r, "issue", "authenticate")
        /\ opened' = opened \cup {signature}
        /\ reopened' = IF signature \in opened THEN reopened \cup {signature} ELSE reopened
        /\ Goto(r, "answer")
        /\ UNCHANGED <<server, browser, job, accepted>>

(* handleCallback: the state is the cookie's, unless a form was posted.    *)
(* The provider takes a code once; what becomes of its profile is in       *)
(* Accounts.                                                               *)
MetWithoutCookie(j) == TRUE
StateMet(j) == token[j.state].post \/ j.cookie = j.state

handleCallback(r) ==
    LET n == job[r].state
    IN  /\ At(r, "arrived", "callback")
        /\ \/ /\ StateMet(job[r])
              /\ accepted' = [accepted EXCEPT ![n] = @ + 1]
           \/ UNCHANGED accepted \* no match, or expired, or no profile from the provider
        /\ Goto(r, "answer")
        /\ UNCHANGED <<server, browser, job, opened, reopened>>

findPasskey(r) ==
    LET k == job[r].signature.key
        found == passkey[k].state = "active" /\ passkey[k].owner = job[r].user
    IN  /\ At(r, "arrived", "remove")
        /\ \/ ~found /\ Refuse(r)
           \/ /\ found
              /\ Goto(r, "delete")
              /\ UNCHANGED <<server, browser, job, opened, reopened, accepted>>

deletePasskey(r) ==
    /\ At(r, "delete", "remove")
    /\ passkey' = [passkey EXCEPT ![job[r].signature.key].state = "deleted"]
    /\ Finish(r)
    /\ UNCHANGED <<token, browser, opened, reopened, accepted>>

-------------------------------------------------------------------------------
(* The answer clears the cookie, whichever ceremony set it last, and signs *)
(* the tab in.                                                             *)
Answered(r) ==
    LET j == job[r]
        c == IF j.op = "callback" THEN "oauth" ELSE "webauthn"
    IN  /\ pc[r] = "answer"
        /\ cookie' = [cookie EXCEPT ![c] = 0]
        /\ \/ j.op = "register" /\ UNCHANGED tab
           \/ /\ j.op = "authenticate"
              /\ tab' = [tab EXCEPT ![j.tab].user = passkey[j.signature.key].owner]
           \/ /\ j.op = "callback"
              /\ \E u \in Users \cup {Nobody} : tab' = [tab EXCEPT ![j.tab].user = u]
        /\ Finish(r)
        /\ UNCHANGED <<server, device, begun, past>>

(* A request or an answer is lost. *)
Lost(r) ==
    /\ pc[r] \in {"arrived", "answer"}
    /\ overlapped' = overlapped \cup IF pc[r] = "answer" THEN Tokens \cap About(job[r]) ELSE {}
    /\ Finish(r)
    /\ UNCHANGED <<server, browser, begun, opened, reopened, accepted>>

Starts(t, n) ==
    \/ registrationOptions(t, n) \/ authenticationOptions(t, n)
    \/ getLoginUrl(t, n) \/ getLinkUrl(t, n)

Sends(r, t) == SendSignature(r, t) \/ SendCallback(r, t) \/ \E k \in Keys : SendRemoval(r, t, k)

Handles(r) ==
    \/ verifyRegistration(r) \/ readPasskey(r) \/ updateCounter(r) \/ issueSession(r)
    \/ handleCallback(r) \/ findPasskey(r) \/ deletePasskey(r)

CeremonyNext ==
    \/ \E t \in Tabs : \/ \E n \in Tokens : Starts(t, n)
                       \/ \E k \in Keys : Sign(t, k)
                       \/ SwitchUser(t)
                       \/ \E r \in Requests : Sends(r, t)
    \/ \E r \in Requests : Handles(r) \/ Answered(r) \/ Lost(r)

CeremonySpec == CeremonyInit /\ [][CeremonyNext]_ceremonyVars

-------------------------------------------------------------------------------
(* A passkey belongs to the user who asked for it: whoever has signed in   *)
(* to the tab since, and whatever other ceremony has replaced the cookie,  *)
(* nobody registers a key that was made for somebody else.  The state is   *)
(* well typed.                                                             *)
PasskeyIsItsAskersOwn ==
    /\ CeremonyTypeOK
    /\ \A k \in Keys :
          passkey[k].token # 0 => passkey[k].owner = token[passkey[k].token].user

(* The token of a ceremony can be used again until it expires.  What keeps *)
(* a signature from opening two sessions is the counter: so it does not    *)
(* for an authenticator that does not count, or when two requests overlap. *)
SignatureOpensOneSessionUnlessOverlapped ==
    \A s \in reopened : s.key \notin counted \/ s.key \in overlapped

(* A state is accepted once, as the answer to the callback clears its      *)
(* cookie: unless a second callback was under way before that answer, the  *)
(* answer was lost, or the provider posts a form, for which the code alone *)
(* decides.                                                                *)
StateIsAcceptedOnceUnlessUncleared ==
    \A n \in Tokens : accepted[n] > 1 => token[n].post \/ n \in overlapped
==============================================================================
