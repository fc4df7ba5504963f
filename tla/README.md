# AuthKit Pro, verified

AuthKit Pro is an authentication service: an Express server over PostgreSQL
(Prisma), with Redis for rate limits and the email queue, a client SDK with a
React provider, and a web client built on the same protocol.  This directory
holds TLA+ models of its core logic, the TLC configurations that check them on
small instances, and proofs that TLAPS checks for instances of every size.

Paths below are relative to the repository; `server/` stands for
`src/server/src/`, and `features/` for `src/server/src/features/`.

1. [Inventory](#inventory)
2. [How the models are made](#how-the-models-are-made)
3. [Modules](#modules)
4. [Runs](#runs)
5. [Observations](#observations)
6. [Proofs](#proofs)
7. [Not modelled](#not-modelled)
8. [Plan](#plan)

## Inventory

Everything the server knows is in PostgreSQL; a handler keeps only local
variables between its statements.  Node runs one handler's JavaScript up to its
next `await`, so what interleaves is statements, of the handlers of one process
and of several processes behind a load balancer.  There are few transactions,
they run at READ COMMITTED, and none takes an explicit lock: a row is locked
because it was updated.

| Part | State | Operations | Talks to | What makes it correct |
|---|---|---|---|---|
| Sessions and rotation: `features/auth/auth.service.ts`, `features/sessions`, `middleware/auth.middleware.ts` | `sessions`, `refresh_tokens`, `users.is_active` | sign-in's new session, refresh, logout, revoke one, others, all; the check of an access token | every way of signing in ends here; password change and reset, disabling and deletion evict | one live token per session; a token renews once; reuse revokes; revocation is final; an eviction misses nothing |
| Sign-in: `auth.service.ts`, `auth/lockout.ts`, `auth/suspiciousLogin.ts`, `features/passwordless` | `users.failed_login_attempts`, `locked_until`, `login_attempts`, `login_tokens` | password sign-in, lock and unlock, new-device alert, magic link, login code | hands over to the second factor or to sessions | the lockout counts; links and codes pass once; a code takes few guesses; a new device is noticed |
| Second factor: `features/two-factor` | columns of `users`, `backup_codes`, `login_tokens`, `trusted_devices` | enrol, enable, disable, backup codes, email and SMS codes, phone, trusted devices | between the first factor and the session | codes pass once; the enabled secret and the verified phone are proven; trust ends with the enrolment |
| Accounts: `features/account`, `email-verification`, `password-reset`, registration | `users`, `verification_tokens`, `password_resets` | register, verify, change email, reset and change password, delete | evicts sessions, sends mail | links are single-use; an address has one owner, who proved it |
| OAuth: `features/oauth` | `oauth_accounts`, a signed state in a cookie | sign in, link, unlink; eight providers' answers | finds and creates accounts, issues sessions | a provider account belongs to one user; a state is accepted once; a user keeps one way in |
| Passkeys: `features/passkeys` | `passkeys`, a signed challenge in a cookie | register, authenticate, remove | issues sessions | a key belongs to who asked for it; a signature opens one session |
| Organizations and teams: `features/organizations` | `organizations`, members, invitations, teams, team members | create, delete, invite, accept, change role, remove, leave, transfer; team operations | reads users | one OWNER, who is `owner_id`; an invitation admits one |
| Roles and administration: `features/rbac`, `features/admin`, `middleware/rbac.middleware.ts`, `rbac.seed.ts` | roles, permissions, assignments, `users.is_active` | assign, replace, create, delete, seed; disable, enable, unlock | registration assigns the default role; disabling evicts | what was asked for last is what is stored; somebody can still administer; a disabled user has no session |
| IP blocking: `features/ip-blocking`, `middleware/ipBlock.middleware.ts` | `blocked_ips`, a copy per process | block, unblock, look up | every API request | a stale answer is bounded in time |
| Email: `server/jobs/email.queue.ts`, `lib/email` | a BullMQ queue in Redis, a worker per process | queue, send, retry, fall back to sending inline | called by everything that sends mail | a mail is not lost once its request was answered, and not sent twice without a reason |
| Notifications and push: `features/notifications` | `notifications`, `push_subscriptions`, the browser's subscription | list, read, subscribe, unsubscribe, send, prune | called after the fact | the card says what the server will do |
| Client SDK and React provider: `src/packages/core`, `src/packages/react` | access token and refresh promise per tab, cookie per browser, status shown | login, logout, load profile, refresh | the server, over a network that loses answers | one refresh at a time; nothing comes back after logout; the status is honest |
| Web client: `src/client` | the same with axios; a query cache per tab, and cards that show and change lists | the same; load, change, invalidate | the server | the same; a card shows what the server has |
| Rate limiting: `middleware/rateLimitStore.ts` | counters in Redis or in memory | count a hit | every API request | fails open |
| API keys: `features/api-keys` | `api_keys` | create, revoke, check | requests of programs | a revoked or expired key is refused |
| Audit log: `features/audit` | `audit_logs` | append | called after the fact | never fails its caller |

What is hard here, and what tests hardly reach:

- **Read, then write.** Most handlers read a row, `await`, and write by the
  row's key.  Some writes ask again (`updateMany where revokedAt is null`), some
  do not.  Which of them matters is the question of every server module.
- **Locks in opposite orders.** A rotation updates a token and then its session,
  a revocation the session and then its tokens.
- **Two statements where one is meant.** Evicting updates sessions and then
  tokens, while sign-ins and rotations insert both; replacing a set deletes the
  rows it sees and inserts others.
- **Crashes** between a consumed code and the session it was for, between a
  commit and its answer, or between a mail and its acknowledgement.
- **Lost and late answers** to a client whose cookie is shared by its tabs and
  whose token is not.
- **Copies**: the block cache per process, the lists in a tab, the row a handler
  read earlier, a challenge in a cookie that another tab replaces.
- **Limits**: lockout and guess counters that are read before and counted after;
  attempts and stalls of a job.

`PROJECT.json` lists each at its line.

## How the models are made

*Processes.* A request of the server is a process: `pc[r]` is the statement it
executes next and `job[r]` its local variables, including the rows as it read
them.  What happens between two `await`s is one step.  A handler that only reads
and refuses changes nothing and is a step that is not taken.

*The database.* The tables are variables that hold committed values.  A single
statement is one step.  `updateMany` with a condition is one SQL `UPDATE`: it
finds rows by its snapshot, waits for those another transaction has locked, and
looks at each again.  A Prisma `update` or `delete` of a missing row throws, and
its transaction rolls back.  In `SessionRotation` the row locks are explicit,
since the order of locking is what its properties are about; elsewhere a
transaction that first updates one common row is one step, and a transaction
that deletes what it sees and then inserts is two.

*Failures.* `Crash` ends a request between two statements, and its open
transaction rolls back.  In the clients a request or its answer is lost.  In
`Mail` Redis, the mail server and the processes fail, are shut down and come
back.

*Races as exceptions.* Where a rule of the documents holds only as long as
certain operations do not overlap, a history variable (`raced`, `overlapped`,
`races`, `crossed`, `excused`, `pardon`) records that they did, and the property
says the rule *unless* they did.  So each property names the exact windows, and
it is violated as soon as one more is opened.  A history variable is never read
by a guard.  What the windows mean in practice is listed under
[Observations](#observations).

*Bounds.* Each bound is a named constant used in guards (`MaxOps`, `MaxCalls`,
`MaxNow`, `MaxTime`, `MaxLoad`, `MaxOtps`, `MaxTokens`, `MaxChanges`, `MaxLinks`,
`MaxRequests`, `MaxFaults`), or is the size of a set of rows or of things under
way (`SessionsLeft`, `TokensLeft`, `LinksLeft`, `InvitesLeft`, `TeamsLeft`: a row
is reserved by the request that will insert it; `Jobs`, `Clicks`, `Switches`,
`Endpoints`).  Where a behaviour ends because a bound was reached, the
configuration says `CHECK_DEADLOCK FALSE`.

## Modules

`RefreshChain` is the abstract specification of renewing a login: a session is
unopened, open or closed, an open one has one holder, a token is handed out once
and renews at most once, and closed is for good.

`SessionRotation` models the session tables one SQL statement at a time.  Init is
a set of active users with empty tables.  Its requests:

| Code | Steps |
|---|---|
| `login` to `issueAuthenticatedSession` | `Login` reads the user; `IssueSession` waits for the user's row, since its transaction starts with `last_login_at` |
| `refresh` | `RefreshFindsLive`; `ClaimRotation` or `LoseRotation`; `CommitRotation`, which touches the session. A revoked token goes by `RefreshFindsReuse` to the revocation below |
| `revokeSession`, `revokeAllUserSessions`, `revokeOtherSessions` and their callers | begin with `Logout`, `RevokeUserSession`, `RevokeOtherSessions`, `ChangePassword` or `EvictAll`; then `LockUser`, `FindSessions`, `LockRow`, `EndSessions`, `FindTokens`, `LockRow`, `EndTokens` |
| `setUserActive(true)` | `Enable` |
| PostgreSQL | `AbortDeadlock` picks any request on a cycle of waits; `Crash` |

`SessionRotation_proofs` holds the proofs of its invariants, that it implements
`RefreshChain`, and that a revocation of many sessions misses none.

`Organizations` models one organization and its teams; all statements are keyed
by the organization.  A request reads, one statement after the other, the
organization (`Ask`, `FollowInvite`), the caller's membership
(`requireMembership`), the team (`requireTeam`) and the target (`ReadTarget`),
and then writes once.  There is no step in which the code looks again.
`Organizations_proofs` holds its proofs.

`SecondFactor` models one user's second factor.  The steps of a sign-in are those
of `verifySecondFactor`: the TOTP secret, the backup codes (`FindBackup`, then
`UseBackup`), the delivered codes by channel (`FindOtp`, `CountAttempt` or
`ClaimOtp`), the session and the trusted device.  A code is a member of a set,
a TOTP code stands for its secret, and a row of `login_tokens` for the code that
was sent with it.  `SecondFactor_proofs` proves each of its properties.

`SignIn` models the first factor of one user: the password with the counter that
is read before the hash is compared and written after (`BeginLogin`,
`registerFailedAttempt`, `clearFailedAttempts`), the new-device check before the
attempt is recorded, and magic links and login codes.  The check is two
statements and an alert (`checkSuspiciousLogin`, `sendSuspiciousLoginEmail`), as
in `suspiciousLogin.ts`: the same IP address or the same user agent is enough to
be known (`SeenBefore`), a request with neither is not looked at (`HasSignal`),
and whatever fails is swallowed.  `SignIn_proofs` proves each of its properties.

`ClientSession` models a client in the tabs of a browser.  `client` says which
one a behaviour is about: the SDK with its provider, or the web client with its
`AuthContext`; they differ in what they do with a 401 of the sign-in endpoint and
with a refresh that fails.  A call is sent, served and answered; `refreshOnce` is
a process of its own per tab that other calls wait for.  The server serves a
request in one step: that a rotation is atomic seen from outside is what
`SessionRotation` and its refinement of `RefreshChain` show.
`Clients_proofs` proves each of its properties, and those of the cards below.

`IpBlocking` models the table of blocks, a copy per process and loads that take
time.  Times are ticks of one clock; a copy is dated when it arrives.
`Periphery_proofs` holds its proofs, beside those of `Ceremonies` and `Mail`.

`Providers` says what each of the eight providers may answer about an account,
and what its client in `oauth/providers` makes of the answer (`exchangeCode`).
What a provider answers is external: an account has an address, confirmed there
or not, and `Told` gives the answers in the forms that the clients read.  What a
profile promises is shown in `Accounts_proofs`.

`Accounts` models the rows of users, of their links and of the provider accounts.
`Users` are the rows there can be; an address is unique among them, and a deleted
user keeps its own.  `NoUser`, `NoLink` and `NoRow` give the columns.

| Code | Steps |
|---|---|
| `register` | `BeginRegister` finds the address free, `register` creates the user, `issueEmailVerification` stands for the best-effort part |
| `resendVerification`, `forgotPassword` | read the user; `issueLink` writes the row with what was read |
| `requestEmailChange` | the password, then `findTaken`, then `issueLink` |
| `verifyEmail`, `confirmEmailChange`, `resetPassword` | `BeginFollow` finds the link open; `consumeLink` is the transaction, with an effect by kind of link |
| `deleteAccount` | `BeginDelete`, `deleteAccount` |
| `resolveLoginUser` | `BeginOAuthLogin`, with any profile of `ProfilesOf`; then `createOAuthAccount` or `createUserFromProfile`, which the unique keys may refuse |
| `linkAccount` | `BeginLinkAccount`, `linkAccount`, an upsert |
| `unlinkAccount` | `BeginUnlink`, `countOthers`, `unlinkAccount`, by the row's id |

What may go wrong is who owns an address or a provider account, so a password is
only one that somebody knows or a random one that nobody does, and the history
`proven` collects for a user the addresses whose links were followed or that were
confirmed at a provider.  The reads that a handler makes one after the other
before its write are one step: for `resolveLoginUser`, the unique keys decide at
the write; for `unlinkAccount`, an address that is verified stays so.
`Accounts_proofs` holds its proofs.

`AccessControl` models roles, their permissions, who holds them, and whether a
user is active.  A request of an administrator authenticates, reads its
permissions (`authorize`), reads what it is about (`read`), and writes: one
statement (`write`), or a replacement, which deletes the rows it sees (`clear`)
and inserts at its commit (`insert`).  A registration adds the default role, a
sign-in may be between its read and its session, and the seed script empties and
fills the roles of the system and may die in between.  `AccessControl_proofs`
proves each of its properties.

`Ceremonies` models passkeys and the state of an OAuth sign-in from the point of
view of the tabs of a browser.  The server signs a token that says what the
second half must match and keeps nothing; the token sits in a cookie that all
tabs share.  The second half is a request (`arrived`, `update`, `issue`,
`delete`, `answer`) whose answer clears the cookie, late or never.  Authenticators
that count their signatures and ones that do not are both there.
`Periphery_proofs` proves each of its properties.

`Mail` models the queue.  `dispatchEmail` adds a job (`add`, `addAgain` when the
connection breaks, `addFails` when Redis refuses) or sends inline; a worker takes
a job, sends and reports; a job is retried after its backoff, is given to another
worker once when it stalls, and ends done or failed.  Processes shut down in the
order of `server.ts`, or die.  `Periphery_proofs` proves `CopiesExplained`.

`Dashboard` models the cards and tabs of the web client.  Each is a record of its
controls: what a change does to the list, whether the control is disabled while
it is pending, and what follows its success.  A behaviour is about one of the
twelve; the query cache, the request for the list and the changes under way are
variables.  `Push` extends it with the card that turns web push on and off, the
browser's one subscription, the rows of `push_subscriptions` and the sending with
its pruning; `TabSpec` is a tab with one of the lists or with that card.
`Clients_proofs` proves their properties of `TabSpec`.

Each `MC_` module only instantiates its component: `Symmetry`, and model values
where the configuration needs several sets.

## Runs

| Run | Configuration | Checks | Shows |
|---|---|---|---|
| `rotation` | `MC_SessionRotation.cfg` | `OneLiveToken`, `ExpiriesAgree`, `RevocationIsFinal`, `EvictionIsComplete`, `ImplementsRefreshChain` | whatever two requests and crashes do, the chain of tokens, revocations and evictions hold |
| `rotation_live` | `MC_SessionRotation_live.cfg` | `RequestsEnd` | every request ends, although locks are taken in opposite orders |
| `organizations` | `MC_Organizations.cfg` | `OneOwnerUnlessTransferRaced`, `InviteAdmitsOne`, `TeamsHoldPastMembers` | ownership and invitations are kept except in the named races |
| `second_factor` | `MC_SecondFactor.cfg` | `DeliveredCodeHolds`, `BackupCodeOnceUnlessRaced`, `FactorsProven`, `TrustEndsWithEnrolment` | which promises hold always and which need operations apart |
| `sign_in` | `MC_SignIn.cfg` | `LocksAtMaxFailed`, `NeverLocksEarly`, `NewDevicesAlerted`, `LoginTokenHolds` | when the lockout counts exactly, and that links and codes pass once |
| `client_session` | `MC_ClientSession.cfg` | `NoSelfInflictedReuse`, `LogoutEndsUnlessRaced`, `StatusHonest`, `WrongPasswordCountsOnceUnlessRefreshed`, `NobodyWaitsInVain` | which mishaps an honest browser needs to lose its session or its logout, with either client |
| `ip_blocking` | `MC_IpBlocking.cfg` | `StalenessBounded`, `ImmediateUnlessLoading` | a wrong answer is at most `CACHE_TTL_MS` and one load old |
| `accounts` | `MC_Accounts.cfg` | `VerifiedEmailProven`, `LinkSpentForItsEffect`, `WayBackIn`, `ProviderAccountKeepsUser` | addresses and provider accounts stay with who proved them, and the two races that break a rule |
| `access_control` | `MC_AccessControl.cfg` | `ReplacementsAreWholeUnlessRaced`, `SomebodyIsActiveUnlessCrossed`, `DisablingEndsSessionsUnlessOvertaken`, `SystemRolesStayUnlessSeeded` | what overlapping replacements leave, who can be locked out, which sessions survive a disabling |
| `ceremonies` | `MC_Ceremonies.cfg` | `PasskeyIsItsAskersOwn`, `SignatureOpensOneSessionUnlessOverlapped`, `StateIsAcceptedOnceUnlessUncleared` | whose key is registered, and how often a signature or a state is accepted |
| `mail` | `MC_Mail.cfg` | `CopiesExplained`, `MailSettles` | every further copy has a failure behind it, and every mail is sent or recorded as failed |
| `dashboard` | `MC_Dashboard.cfg` | `ShowsTheListAtRest`, `TogglesAccumulateUnlessDisturbed`, `ShowsWhatArrives` | what a card shows at rest is what the server has, except for the named causes |

Every property has a mutant in `PROJECT.json`: a definition that stands for the
code, changed the way a plausible bug would change it, with which TLC finds the
property violated.

### Bounds, and why they are enough

- *Two requests at a time* in the server modules: every race found or excluded is
  between a read and a write of one request and a write of another.  `rotation`
  reaches a third party through what an earlier request has left behind.  What is
  proved is proved for any number.
- *Three tokens, two sessions, one user* in `rotation`: a rotation of a rotation,
  a second session that an eviction must also catch, a token that is wasted.
  `TTL = 0` and one tick of the clock give sessions that expire and ones that do
  not.  `rotation_live` needs the deadlock only: one session, no clock, no
  crashes.
- *Three users* in `organizations`: an owner, the target of a transfer and a
  third who acts.  Six operations reach a transfer that overlaps another.
- *Two secrets, backup codes and phones, two delivered codes, one wrong guess* in
  `second_factor`: an old and a new one of each; four operations reach an
  enrolment, a disabling, and two sign-ins across them.
- *A lock after three wrong passwords, five requests, four devices* in `sign_in`:
  three that lock, one after the lock has run out, and one beside them; two
  devices that have nothing in common, one that resembles both, and one that
  tells nothing.
- *Two tabs, two calls at a time, three calls with the SDK and two with the web
  client, a session from before or none* in `client_session`: a refresh in each
  tab, or two calls that share one, with a logout or a sign-in beside them.
- *A life of two ticks, loads of at most two, four ticks of time* in
  `ip_blocking`: a wrong answer can be as old as the life and the load together,
  minus one tick, and the clock has to run one tick longer for the bound to be
  exceeded if the code were wrong.  Two loads and two administrators at a time;
  one address, because addresses meet only in the copy, which is replaced whole.
- *Two users and addresses, a profile at GitHub whose address is confirmed and
  whose account has a second one, a profile at Discord whose address is not, three
  links, five requests* in `accounts`: two users that compete for an address, two
  changes of one user, a user with two providers that unlinks both.  Three links
  leave one for the registration of each user and one to follow.  Without the
  exceptions that they name, `LinkSpentForItsEffect` and `WayBackIn` are violated
  within these bounds.
- *Two users, three roles and two requests, beside a registration, a sign-in and
  the seed* in `access_control`: two replacements of one set, two administrators
  who disable each other, a disabling that meets a sign-in, a deletion that meets
  the seed.
- *Two tabs, two users, two authenticators, two signed tokens, two requests* in
  `ceremonies`: a token of one ceremony that another replaces in the cookie, and
  one signature or state presented twice.
- *One mail, two processes, a queue of three, three attempts, four failures* in
  `mail`: mails meet nowhere but in a worker, which takes one job at a time.  Two
  failures and a stall exhaust a job; the fourth failure hits what comes after.
- *Two users, two items or subscriptions, two changes at a time* in `dashboard`:
  a change by the user before, by the one shown and by somebody else.  The number
  of changes of a behaviour is not bounded.

Symmetry is used only in runs of safety properties, over sets whose members no
definition singles out (`CHOOSE` in `Holder` picks the only live token, by
`OneLiveToken`).

### Fairness

Two properties are about liveness.

`RequestsEnd`: `FairSpec` of `SessionRotation` asks strong fairness of the steps
of a request that wait for a lock: a row that is waited for is free again and
again but another request may take it, and PostgreSQL serves the waiters of a row
in their order.  It asks weak fairness of the deadlock detector, which runs after
`deadlock_timeout` in a backend that waits.  Without the detector the property
fails: the cycle of the token and its session is real.  No fairness is asked of
the clients: a request need not arrive.

`MailSettles`: `MailSpec` asks weak fairness of what the code itself goes
on doing (a request that sends or adds, a worker that sends, reports and takes
the next job, the queue that ends a backoff and finds jobs whose worker is gone),
of a process that is started again, and of a Redis that comes back.  It asks none
of failures, of new mails or of a worker that is merely slow.  Failures are
bounded by `MaxFaults`, so that a behaviour is not an endless row of them.

## Observations

Where the code is weaker than a reader may assume.  Most are exceptions that a
property names.  What the run of such a property shows is that nothing else breaks
the rule within its bounds; that the exception itself can happen is read from the
code, at the lines that the hazards name.

Sessions:

- The revocation that answers a reused token and a rotation of the session's live
  token lock the token and the session in opposite orders.  PostgreSQL aborts
  one; if it is the revocation, nothing tries again and the session lives on
  (`EvictionIsComplete` speaks of the commit).
- The answer of a refresh that was under way when the user logged out puts a
  token and a cookie back; they belong to a revoked session
  (`LogoutEndsUnlessRaced`).
- Refreshing is once per tab, and the cookie is shared by all tabs: two tabs that
  refresh at once burn their session, and so does `AuthKit.refresh()`, which does
  not go through `refreshOnce` (`NoSelfInflictedReuse`).
- A logout that fails, or overlaps a profile that is being loaded, leaves the
  user shown as signed in (`StatusHonest`).
- The web client takes the 401 of `/auth/login` for an expired token: with a live
  cookie it refreshes and sends the wrong password again.  It counts once for the
  sign-in and once for the refresh (`WrongPasswordCountsOnceUnlessRefreshed`).
- Registration creates its session without the update of `users` by which a
  sign-in waits for a revocation of all sessions (`auth.service.ts:97`).
  `EvictionIsComplete` is about sign-ins and rotations; `AccessControl` has the
  session of a registration, and excepts a disabling that meets it.

Signing in:

- Wrong passwords that overlap count as one, and one that overlaps a success can
  bring the old counter back (`LocksAtMaxFailed`, `NeverLocksEarly`).
- The counter is not reset when a lock runs out: the next wrong password locks
  again at once.
- Nobody is told of a new device that shares its IP address or its user agent
  with an earlier one, or when the check or the mail fails.  Of the others, those
  escape whose sign-ins overlap the very first one: fewer than there are requests
  at a time (`NewDevicesAlerted`).
- A backup code passes twice if two sign-ins overlap: it is found unused and
  marked by its id in another statement, while delivered codes are claimed
  (`BackupCodeOnceUnlessRaced`).
- The update that marks a phone as verified does not name the phone: a setup in
  between has another's code verify it (`FactorsProven`).
- The token of a passkey ceremony is good until it expires; an authenticator that
  does not count its signatures opens a session with each replay of its answer
  (`SignatureOpensOneSessionUnlessOverlapped`).  An OAuth state that a
  provider posts as a form comes without the cookie, so only the provider's code
  is used once (`StateIsAcceptedOnceUnlessUncleared`).

Accounts:

- Two requests that follow one link at once both succeed: the transaction marks
  the link by its id (`LinkSpentForItsEffect`).  `schema.prisma:76` and `:95` call
  these links single-use.
- Two providers that are unlinked at once can leave a user whom a provider created
  with no way back in (`WayBackIn`).
- An email-change link stays good after another change was confirmed, and takes
  the address back to its own; it is one that its reader holds
  (`VerifiedEmailProven`).
- Microsoft and Facebook say nothing of whether an address is confirmed; their
  clients take every address as verified, on the word of their comments, and the
  model assumes the same.

Organizations and administration:

- A transfer that overlaps a removal, a change of role, leaving or another
  transfer can leave two OWNERs, or an owner who is no member
  (`OneOwnerUnlessTransferRaced`).
- Two users who follow one invitation at once are both admitted
  (`InviteAdmitsOne`); who leaves an organization stays in its teams
  (`TeamsHoldPastMembers`).
- Two replacements of one set of roles at once leave the union, and a seed that
  dies leaves a role of the system without permissions
  (`ReplacementsAreWholeUnlessRaced`).
- Two administrators who disable each other at once leave nobody active
  (`SomebodyIsActiveUnlessCrossed`), and a sign-in that read the user before the
  disabling gets its session (`DisablingEndsSessionsUnlessOvertaken`).
- A block made while its own process loads the cache may be missed until the next
  load (`ImmediateUnlessLoading`).

Mail and the web client:

- The inline fallback is not reached while Redis is down: the client keeps the
  command and the request waits with it.
- Logout clears the user and not the query cache: the next user of the tab is
  first shown the lists of the one before, and a toggle of `RoleCard` may send
  such a list (`ShowsTheListAtRest`, `TogglesAccumulateUnlessDisturbed`).
- `OrganizationsPage` does not ask for its list again after leaving or deleting an
  organization.
- A `Button` that is given a `disabled` of its own is not disabled by `loading`:
  the forms of `ApiKeysCard` and of the blocked addresses can be sent twice.
- The push card asks the browser and not the server: it says "On" for a
  subscription that another user stored, or that was never stored
  (`ShowsWhatArrives`).


## Proofs

Each theorem holds for every value of the constants that its module's
assumptions allow: any number of users, rows, requests and processes, and any
bounds.

| Module | Theorem | Property |
|---|---|---|
| `SessionRotation_proofs` | `TypeCorrect` | `[]TypeOK` |
| | `RotationInvariant` | `[]RotationInv` |
| | `NeverTwoLiveTokens` | `[]OneLiveToken` |
| | `ExpiriesAlwaysAgree` | `[]ExpiriesAgree` |
| | `RevokedForGood` | `RevocationIsFinal` |
| | `RotationIsRefreshChain` | `ImplementsRefreshChain` |
| | `EvictionsMissNothing` | `[]EvictionIsComplete` |
| `SecondFactor_proofs` | `SecondFactorIsTyped` | `[]Typed`, from which `TypeOK` follows |
| | `DeliveredCodesHold` | `[]DeliveredCodeHolds` |
| | `BackupCodesOnce` | `[]BackupCodeOnceUnlessRaced` |
| | `FactorsAreProven` | `[]FactorsProven` |
| | `TrustsEnd` | `[]TrustEndsWithEnrolment` |
| `Accounts_proofs` | `AccountsHonest` | `[]AccountsInv` |
| | `EmailsAlwaysProven` | `[]VerifiedEmailProven` |
| | `ProviderAccountsStay` | `ProviderAccountKeepsUser` |
| | `LinksAreSpent` | `[]LinkSpentForItsEffect` |
| | `WayBackInStays` | `[]WayBackIn` |
| | `VerifiedMeansConfirmed` | what the profile of a provider promises |
| `SignIn_proofs` | `LoginTokensHold` | `[]LoginTokenHolds` |
| | `DevicesAreAlertedAbout` | `[]NewDevicesAlerted` |
| | `LocksAreEarned` | `[]NeverLocksEarly` |
| | `LocksOnTime` | `LocksAtMaxFailed` |
| `Clients_proofs` | `ClientsHold` | `[]Inv` of `ClientSession` |
| | `NobodyWaits` | `[]NobodyWaitsInVain` |
| | `NoReuseOfItsOwn` | `[]NoSelfInflictedReuse` |
| | `LogoutsHold` | `[]LogoutEndsUnlessRaced` |
| | `UserIsSignedIn` | `[]StatusHonest` |
| | `PasswordsCountOnce` | `[]WrongPasswordCountsOnceUnlessRefreshed` |
| | `CardsShowTheList` | `[]ShowsTheListAtRest` of `Dashboard` |
| | `TogglesAccumulate` | `[]TogglesAccumulateUnlessDisturbed` |
| | `PushCardIsRight` | `[]ShowsWhatArrives` of `Push` |
| `AccessControl_proofs` | `AccessIsTyped` | `[]Typed` |
| | `ReplacementsAreWhole` | `[]ReplacementsAreWholeUnlessRaced` |
| | `SomebodyIsAlwaysActive` | `[]SomebodyIsActiveUnlessCrossed` |
| | `DisablingEndsSessions` | `[]DisablingEndsSessionsUnlessOvertaken` |
| | `SystemRolesAlwaysStay` | `SystemRolesStayUnlessSeeded` |
| `Periphery_proofs` | `CopiesAlwaysRight` | `[]CopiesRight` of `IpBlocking` |
| | `StaleForBoundedTime` | `[]StalenessBounded` |
| | `ImmediateWhenSettled` | `[]ImmediateUnlessLoading` |
| | `CopiesAlwaysExplained` | `[]CopiesExplained` of `Mail` |
| | `PasskeysOwned` | `[]PasskeyIsItsAskersOwn` of `Ceremonies` |
| | `SignaturesOpenOnce` | `[]SignatureOpensOneSessionUnlessOverlapped` |
| | `StatesAcceptedOnce` | `[]StateIsAcceptedOnceUnlessUncleared` |
| `Organizations_proofs` | `TypesKept` | `[]Typed`, which adds to `TypeOK` the variables each operation has |
| | `OwnershipHolds` | `[]OneOwnerUnlessTransferRaced` |
| | `InvitationsAdmitOne` | `[]InviteAdmitsOne` |
| | `TeamsHoldTheAdmitted` | `[]TeamsHoldPastMembers` |

### What is assumed

- `RowsAreDistinct`, `ClockIsNatural` (`SessionRotation`): the kinds of rows are
  disjoint, `None` is none of them, `TTL` and `MaxNow` are natural numbers.
- `NoneIsNoRow`, `ProfilesAreAccounts`, `BoundsAreNatural` (`Accounts`).
- `EndsAreTimes`, `TtlIsPositive` (`IpBlocking`): a block ends at a time or
  never, and a copy lives longer than nothing, as `CACHE_TTL_MS` does.
- `MaxOpsIsNatural` (`Organizations`).
- `CodesAreDistinct`, `BoundsAreNatural`, `FinitelyMany` (`SecondFactor`): secrets,
  backup codes and delivered codes are not taken for each other; a guess is
  allowed; backup codes and concurrent requests are finite sets, since both are
  counted.
- `BoundsAreNatural`, `FinitelyMany`, `DevicesHaveBoth` (`SignIn`): a lock needs a
  wrong password and a code allows a guess; concurrent requests are finitely many;
  a device is an IP address and a user agent, either of which may be `None`.
- `FirstIsAUser`, `NoneIsNoUser`, `UsersAreNoRoles`, `AskedAreKnown`,
  `MaxRequestsIsNatural` (`AccessControl`): an administrator asks for roles and
  permissions, and no role is taken for a user.
- `Apart`, `NoneIsNoPair`, `MaxCallsAreNatural`, `FinitelyMany` (`ClientSession`):
  tabs and calls are different processes, calls at a time are finitely many, and
  `None` is no tab, call, session or pair of tokens.
- `AttemptsArePositive`, `NothingIsNone`, `QueueIsFinite`, `FaultsAreCounted` (`Mail`):
  a job is tried at least once, places in the queue and processes are finitely many,
  and what stands for nothing is none of them.
- `NobodyIsNone`, `CountedAreKeys`, `CountsAreNatural` (`Ceremonies`): nobody is no
  user and no key, and the counting authenticators are among the keys.
- `NobodyIsNoUser` (`Dashboard`), `NobodyIsNoEndpoint` (`Push`): who stands for nobody
  is neither a user nor a subscription.
- What a provider answers is as `Told` says.  In particular Microsoft and
  Facebook give only addresses they confirmed, which is what the comments of
  their clients rely on.

`Periphery_proofs` extends three modules that share neither a constant nor a
variable, so its theorems stand formally under the assumptions of all three; no
proof about one uses a definition or an assumption of another.  The same goes for
`Clients_proofs`, which extends `ClientSession` and `Push`.

The theorems are about the specifications, so they share their abstractions: a
statement is one step, and a token cannot be guessed.

### One live token, and the chain

`OneLiveToken` is not inductive.  `CommitRotation` inserts a live token, and it
keeps the rule because the token it replaces is live until that very step, which
revokes it.  Nothing about two live tokens says so: it is so because
`ClaimRotation` found the token live and has kept its row locked since, and
whoever else would revoke it must wait for that lock.  `RotationInv` adds that
part, `ClaimHeld(r)`: a request between its claim and its commit holds the lock
of its token, which is live and belongs to the session the request touches.
`LockedTokensExist` and `TokensHaveSessions` keep it true while rows are
inserted.  `ExpiriesAgree` goes along, because the step that gives the session a
new expiry is the one that gives the session its only live token.

The refinement maps a session to its state and to its holder, the one live token
of an open session.  `HolderIs` says that `OneLiveToken` makes the `CHOOSE` of
the mapping unique, `HolderBecomes` what a step has to change for the holder to
change.  Each step of a request is then one of `Open`, `Rotate`, `Waste`, `Close`
or a stutter.  One more invariant is needed, `LockedSessionsExist`: a revocation
locks only sessions that were opened, so that it never closes one before that.

### An eviction misses nothing

`updateMany` finds its rows by a snapshot, so a session or a token that is
inserted after the snapshot is missed.  That none is follows from the locks
(`EvictionHeld`): who evicts holds the user's row, which every sign-in waits for,
and each session it has passed, which every rotation waits for.  `RowsKept` says
that a session of a user appears only while the user's row is free, and a token
only while its session's row is.  So what the last statement finds is all there
is, and when it commits nothing is left (`NothingMissed`).  Without the wait of
`IssueSession` for the user's row the proof fails, as it should.

### Codes, phones and devices

The steps of a request are related to its operation by `OnPath`, and to the rows
it has read by `Remembers`; `ComesFrom` says which statement leads to which.  With
these each property needs one invariant.

- `OtpInv`: a code that was accepted is spent, and spent is for good, so the claim
  succeeds once.  A counter that is read before and written after can pass its
  limit by the requests between the two; the invariant counts those with the
  guesses (`Counting`).
- `BackupInv`: a sign-in about to mark a backup code is the first that it admits.
  Another one there would have overlapped it.
- `SentToPhone`: an open code that verifies a phone was sent to the user's phone of
  now, because setting up or removing a phone deletes the codes of the last one.
  `PhoneProven` carries that over the gap between the claim and the mark, in which
  only a setup can change the phone.
- `SecretProven` and `TrustInForce`: what a request relies on between reading the
  user and writing, unless an operation that changes it overlaps.

`OverlapsNoted` connects the exceptions to the state: two requests in flight whose
operations race are in `overlapped`.

### Addresses and provider accounts

An address is written long after it was proven: a link is issued for the address
that a request read, and followed by another request, which reads the link, waits
and writes.  `AccountsInv` says at every stage what is relied on.  A link to
verify an address was sent to it, and the user either still has that address or
has another that is verified (`Meets`); a link to change an address was sent to
the new one (`LinkHonest`).  A request at each of its steps holds values that are
still good enough when it writes (`Honest`).  Both stay true because of the little
that any step does to users and links (`UsersKept`, `LinksKept`).  For the sign-up
by a provider, the step needs that an address that comes as verified was
confirmed; `VerifiedMeansConfirmed` shows that of the eight clients, by cases.

### Links, and a way back in

`UsageInv` counts.  While no two requests followed one link at once, a request
that is about to consume a link has found it open and it still is, so the link has
had no effect yet (`LinksSpent`).  A user whose password nobody knows has a
provider or a verified address; a request about to unlink has found another
provider or the address verified (`Spare`), and only another unlinking, which
would be noted, could have taken that away (`WayBackStays`).  An unlinking names
the row it read by its id: ids are not reused (`RowsWellFormed`), so one that was
replaced meanwhile is not deleted by mistake.

### Signing in

`LoginTokenHolds` is proved as for the delivered codes of the second factor: the
row of a code counts its guesses until it is deleted, and the guesses that were
compared and not counted yet are requests that found some left (`TokensHold`).
Which code is the latest is a `Max` over rows; that it is one of them
(`LatestIsOne`) rests on the well-founded order of finite sets.

For the lockout `streak` says how many wrong passwords came since the last right
one.  The counter that is stored, and the copies that requests will write back,
never exceed it if wrong passwords overlap no right one and no unlocking
(`CounterBehind`), and are equal to it if they do not overlap each other either
(`CounterExact`).  So the lock is not early in the first case, and on time in the
second.

For the devices, `EscapesFew` counts.  While nothing is recorded nobody has escaped
yet.  Whoever records the first device leaves at most all other requests about to
record one unannounced (`Escaping`), and none if sign-ins do not overlap.  From then
on a check finds earlier successes and compares, so nobody starts to escape
(`CheckedInTime`), and a request that does records its device and is one less
(`DeviceKnown`): the devices that escaped and those about to stay fewer than the
requests.  It needs that `seen` only grows, so that a device that is unknown when it
is recorded was unknown to its check.

### Roles and account status

What a request relies on between its checks and its write is part of `Typed`: the
rows that it names exist unless it has noted that they were deleted (`Refers`),
and the handler's refusals are behind it (`Checked`).  `DefaultRole` is the
system's in every state, so it is never deleted.  A replacement is in two
statements; `Alone` says that the first of an unraced one deleted every row there
was and that nobody has half written the same set.  `RegistrationHalf` and
`SeedHalf` say what a registration and the seed have left to write.
`SomebodyIsActiveUnlessCrossed` is inductive by itself: whoever is about to disable
a user is another user than that one, and has stayed active since authenticating
unless a request that disables the administrator crossed.

### The clients

`Inv` of `Clients_proofs` has a part for each property, over a common base.
`Typed` says what a process can carry at each step, that every pair of tokens was
issued, and that `refreshPromise` is there exactly while somebody waits for it
(`RefreshesAwaited`); `NobodyWaitsInVain` follows.  `OverlapsNoted` connects
operations in flight with the history of races.

- `TokensFresh`: as long as no answer to a refresh was lost and no two refreshes
  overlapped, each refresh token that may still be presented is the current one or
  belongs to a dead session.  The cookie is the exception while a refresh was
  served and its answer is on the way (`Replaces`).
- `LoginsApart` and `LogoutsEnd`: a session that was opened and not yet announced
  is nobody else's; unless a login raced, one session at most is afoot in cookie
  and requests, and it is dead from the moment a logout is served (`LogoutKills`).
  A tab that logged out stays without a token, since a refresh that could bring
  one would have been noted (`StaysOut`).
- `UserShown`: a tab without a token shows nobody, and no profile on the way will
  change that.
- `PasswordsCounted`: a sign-in was refused as often as it was sent again, and once more
  from a refusal until it is sent again or ends.  It is sent again only when a
  refresh succeeded, and marked, so that its next 401 ends it (`Replay`).
- `RefreshesCounted`: each operation has a budget of refreshes, one with the SDK
  and two with the web client.  Generations grow by a refresh that is served, which
  was to come; so the generation of a session and the refreshes to come stay within
  what was begun.  This bounds the generations without a bound in the model.

`Flows` says where the sessions in requests and in the cookie come from, so that
each step is looked at once for all of these parts.

### Cards

`ShowsTheListAtRest` says nothing while something is under way; `ListFresh` does.
Once a list was asked for, and without a reason to differ since, a request on the
way is in the name of the user who is signed in; what it has read is what the server
has, and so is the cache when no request is on the way.  The exception is a change
that the server has made and whose answer the card does not know yet (`Outdated`):
when it does, the list is asked for again, and a request under way is replaced.
That each control does so, except the two that close the card, is
`ControlsKnown`: a look at the twelve cards, and the only place where they are
looked at.

`RoleFresh` is why toggles add up.  The one control of a role is disabled while it
is pending, and it is pending until the list has arrived (`wait`); so one toggle
at a time is under way, and while there is none the cache is what the server has.

The push card shows what its own changes did.  `CardRight` relates it to the row
on the server as long as nothing has been sent (`Settled`).  Then a change must
bring it back: it is the only one and of the user who sees the card
(`CardAttended`), and what it turned on is stored under that user unless the push
service ended it (`EnabledStored`).  Pruning takes only rows of subscriptions that
have ended.

### How stale a copy can be

Two facts, one about a load and one about a copy.  The answer that a load will
bring is what the table said at one moment since the load began, so it can be
wrong only about an address whose block changed since; that is the load's part of
`CopiesRight`.  A load takes at most `MaxLoad`, so a copy is wrong only about an
address that changed after `loadedAt - MaxLoad`; that is the copy's part.  A
lookup uses a copy for less than `Ttl`, and the bound follows.  `TickChanges`,
`CommitChanges` and `CopyStaysRight` say how the parts survive the clock, another
administrator's commit and a new copy.  A block that ends by itself is a change
that nobody commits, which is why the argument is about the moment until which an
answer stays right (`RightUntil`) rather than about the table.

### Copies of a mail

`CopiesCounted` weighs, for each mail, what went out against what is still to come:
the copies sent, the copy that a request is about to hand over, the places in the
queue from which it will be sent, and the workers that are sending it, together
never exceed one copy and one for each failure (`troubled`).  `MailTyped` says who
holds what: a place in the queue that is active is held by one worker or is an
orphan, and a worker that sends holds a place.  A step either moves weight from one
side to the other, or it is a failure that the history counts (`Balanced`): a
command that is sent again, an answer of the mail server that is late, a stall while
the worker lives, a death between sending and the record.

### Ceremonies

`CeremoniesTyped` says that a signed token stays as it is (`Begin` signs a new one),
that a key once registered never becomes free, and what a request brings along
(`Brings`, `Found`).  An authenticator has counted no more signatures than there are
ceremonies that do not wait for one any more (`SignaturesBounded`); this bounds its
counter without a bound in the model.  `PasskeyIsItsAskersOwn` follows: the challenge
is met only if the token in the cookie names the user who asks.

`MeetingsNoted` is what the two exceptions rest on: two requests about one key or
one token have been noted.  So the counter that a request has read is still the
stored one unless something was noted, and it has passed every signature that opened
a session (`CounterPassed`); a signature that passes the comparison is therefore a
new one.  A state that was accepted is not in the cookie any more, or the answer
that clears it is under way (`StateSpent`), and a callback sent meanwhile meets it.
The cookie cannot take that state again, because a token is signed once.

### Ownership

`OneOwnerUnlessTransferRaced` excepts an organization where a write overlapped a
transfer, so the invariant says what a request relies on if none did: who changes,
removes or leaves found the target not to be an owner, who transfers was found to
be one (`OwnerRelies`).  `Undisturbed` says that a write which meets another
operation on members, and does not race, is no transfer and meets none; so the
owners do not change under anybody who relies on them.  `Founded` adds that before
there is an organization nobody is in it.

`InvitesInv` is about the requests that found an invitation open: if none of them
raced, the invitation has admitted nobody yet.  `TeamsInv` says that whoever is a
member or in a team, or is about to be added to one, was admitted at some time,
which no removal undoes (`Remembered`).

### Layout

One lemma per kind of step; steps that change nothing that an invariant speaks of
go together (`QuietStep` of `SessionRotation_proofs`, `OwnersSame`, `InvitesSame`
and `TeamsSame` of `Organizations_proofs`).  The theorem of a module then only
collects the lemmas.

### Model-checked only

The liveness properties `RequestsEnd` and `MailSettles` are beyond the provers,
which have neither fairness nor `ENABLED`.  Every other property of the runs is
proved.  No module uses recursive operators.

## Not modelled

- *Rate limiting*: counters per key and window that only refuse requests; when
  Redis fails they let everything pass.  A model would restate the increment.
- *API keys*: a row that is created, read and revoked by single statements.
- *Audit log*: rows that are appended and read, after the fact and without effect
  on their callers.
- *The Express middleware package and the CLI*: they carry no state.
- *Tokens, hashing, encryption*: a signed or random token is a value that cannot
  be guessed, a hash is compared as the value it stands for.
- *Configuration, routing, validation, OpenAPI, templates of mails, health*: no
  state of their own.
- *Of OAuth*: the authorization URL and PKCE.
- *Of sessions*: the session of a registration, in `SessionRotation`; it is in
  `AccessControl` and `Accounts`.
- *Of accounts*: names, pictures and other columns that nothing depends on, and
  the check whether a name is free.
- *Of the web client*: forms that send one request and show its answer, paging,
  search and markup.
- *Of push*: how the service worker displays a message, and leaving the page
  without signing out.
- *Of the surroundings*: a database that loses commits, replicas that lag, and
  processes whose clocks differ.

What is external is modelled as the code uses it: PostgreSQL's locks and its
deadlock detector, BullMQ's states of a job, the query cache of the web client,
authenticators and browsers, and the providers' answers.

## Plan

Done: the server's sessions, sign-in, second factor, accounts, OAuth, passkeys,
organizations, roles, IP blocks and mail; the clients and their lists.

Next, in this order:

1. An abstract specification of a code that is used once, implemented by the
   delivered codes of `SecondFactor`, by the links and codes of `SignIn` and, up
   to its race, by the links of `Accounts`.
2. `RequestPipeline`: what one API request passes (rate limit, IP block, access
   token or API key, permissions), composed from `IpBlocking` and
   `AccessControl`, for the question how long each refusal lags behind its cause.
