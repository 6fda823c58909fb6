# CrabLink: TLA+ models, checks and proofs

CrabLink is a client for the crab:// network: a Tauri desktop application (Rust
and React), a television and an Android client, browser extensions, and shared
packages. This directory models the parts of the desktop application that keep
state across failures, awaits and retries:

- the *Native Passport*: an encrypted vault on disk, two factors in the platform
  keychain, secrets in memory behind PIN prompts, and short-lived authority
  obtained from svc-passport (Rust);
- *local following*: the record of followed creators, the Home feed composed of
  their timelines and its offline cache (shared core library and React);
- *paid access*: the gates that quote and pay before protected content is shown;
- *publication*: the flow that prepares a post, holds ROC for it and publishes;
- the *shell*: tabs over the web view's history, and the wallet balance shown.

`S/` stands for `src/apps/crablink-tauri/src-tauri/src/`, `T/` for
`src/apps/crablink-tauri/src/`, `C/` for `src/packages/crablink-core/src/`.

## Inventory

| Component | State | Operations | What is hard |
|---|---|---|---|
| Passport vault store (`S/passport_vault_store.rs`, `passport_vault_runtime.rs`) | `passport.vault.bin`, its `.tmp` | load, write atomic, recover at start, remove | crash and power loss between any two system calls, partial writes, leftovers of old failures |
| Device authorization store (`S/passport_device_authorization_store.rs`) | one record file, its `.tmp` | load verified, persist once (hard link), clear | overlapping calls share one temporary name; clear on another thread |
| Custody commands (`S/commands/passport.rs` and the runtimes it calls) | vault, keychain, acknowledgement marker, descriptor, operational session, pending factors, capability | create, unlock (with V1 to V2 migration), lock, root confirmation, recovery ceremony, clear | a crash at each step, one store of several failing, retries of half-done clears and creates |
| Async Passport commands (`S/passport_*_http_runtime.rs`, authorization runtimes) | what each call has read | capability issue, possession proof, username claim, device authorization, root registration | awaits between reading and using; late answers; lock, clear and a new passport during an await |
| Local following (`C/localFollowing.js`, `localFollowingRefreshMetadata.js`, `T/pages/profile/`, `T/pages/home/localFollowingRefreshPersistence.js`) | one record without a revision; a copy in each profile view | follow, unfollow, retry, refresh metadata | whole-record writes of copies read earlier; a write that lands and answers an error; clocks going back |
| Following feed (`C/localFollowingFeed*.js`, `T/pages/home/`) | the feed shown, the offline cache | load, compose, merge, offline projection | overlapping loads, a left tab, creators unfollowed during a load |
| Paid content view (`T/pages/asset/`, `T/shared/api/contentViewClient.js`) | gate, access, fetched bytes | quote, pay, fetch, remount | timeouts of payments that were made; late answers; another wallet |
| Paid site visit (`T/pages/site/SiteVisitAccess.jsx`, `SiteRender.jsx`) | gate, access, root document | quote, pay, retry, fetch, remount | the same, with an explicit way back to an old quote |
| Post publication (`T/pages/post/PostPublishFlow.jsx`, `T/shared/api/walletClient.js`) | draft, prepare, hold, publish, nonce | prepare, hold (with nonce recovery), publish, edit, auto-open | idempotency keys across lost answers, edits and pages |
| Tabs and location (`T/app/appState.js`, `App.jsx`) | tabs with histories, the web view's history | navigate, back, forward, open, close, refresh, activate, popstate | updates applied later than they were called; history entries of other tabs |
| Wallet balance (`T/app/appContext.js`, `shell/BalanceChip.jsx`) | `walletState`, `settings.walletAccount` | refresh, switch account, reset | callbacks that carry an old state; answers out of order |
| Public identity store (`S/passport_public_identity_store.rs`) | descriptor file | load, persist once, clear | same file protocol as the authorization store |
| Trust checks (`S/passport_*_trust.rs`) | none | verify challenges and capabilities | clock skew, windows |
| Linux and Windows sealers | sealed files | seal, unseal, clear | file protocols of their own |
| Video jobs, exports, sources (`S/media/`) | job table, files | start, progress, cancel, clean up | worker threads racing a cancel |
| Onboarding (`T/onboarding/`) | wizard model in web storage | steps over the custody commands | restart in the middle |
| Other publication flows (`T/pages/*/...PublishFlow.jsx`, `SiteLaunchFlow.jsx`) | as the post flow | as the post flow, with uploads | as the post flow |
| Local node, operator console, gateway, assets, objects, streams, chat | none | proxied requests, probes | bounds on time and size |
| Core library: URLs, routes, receipts; site templates | none | parsing, formatting, generation | |
| TV pairing and authorization (`crates/crablink-native-core`, `apps/crablink-tv`) | pairing, PIN lifecycle, replay record | pair, authorize, unlock | replay, expiry, restart |
| Android client, browser extensions | skeleton; own storage | | |

How the parts interact. The synchronous Passport commands run on the main thread
one after another, also while a native prompt is open. The async commands run on
the runtime's threads, several at once, beside one main thread command; they
share state through mutexes held for single reads and writes and never across an
await. At start, before any command, the vault store recovers an interrupted
write. The web view calls native commands (one step each, in the order they are
invoked) and services over HTTP through `GatewayClient.request`, which answers
once: with the response or with an error (network, status, timeout) that says
nothing of what the service did. React applies a page's state updates in order
and drops those of an unmounted page; pages of background tabs stay mounted. A
change of the settings makes a new gateway client, and with it mounts resolved
pages anew.

What makes each part correct: the vault store is an atomic durable cell; the
authorization store holds one immutable whole record; custody never mixes two
passports; a created passport is not lost and a cleared one leaves nothing; a
recovery phrase is shown until it is acknowledged and never after; a proof is
signed by the passport it names. The user follows whom they asked to follow; the
cache holds the newest publications. Protected content shows only under a
payment by this page for this wallet, and no quote is paid twice. Trying a hold
again holds no more ROC, a hold pays one post and every post is paid. The location is the page
the active tab shows. A balance shown was really read for the account it is
attributed to.

## Modules

| Module | Models |
|---|---|
| `Files` | the file system the stores run on (external): names, files, what a power loss may keep |
| `DurableCell` | what a durable single-record store promises (abstract) |
| `VaultStore` | `passport_vault_store.rs`, one system call per action; implements `DurableCell` |
| `AuthorizationStore` | `passport_device_authorization_store.rs`, overlapping persists beside a clear |
| `PassportCustody` | the main thread commands over vault, keychain, marker, descriptor, session, pending factors |
| `PassportRequests` | the async commands, composed with `PassportCustody` (EXTENDS: the actions of both share custody); implements it |
| `LocalFollowing` | the record, profile views and refreshes |
| `FeedDocuments` | the pure functions over publications: composing a feed, merging a cache, projecting it offline |
| `FollowingFeed` | the Home page's loads, over `FeedDocuments` |
| `PaymentService` | requests to the paid routes and the ledger behind them (external) |
| `PaidGate` | what a paid page promises (abstract) |
| `ContentView`, `SiteVisit` | the two paid pages over `PaymentService`; each implements `PaidGate` |
| `HoldService` | requests to the wallet and post routes, the holds and posts made (external) |
| `PostPublish` | the post page's flow and `WalletClient.hold`, over `HoldService` |
| `Tabs` | `useRouteState` over React's waiting updates and the web view's history |
| `WalletBalance` | `refreshWallet`, its callers and the settings' account |
| `VaultStoreProofs`, `LocalFollowingProofs` | theorems about these modules |
| `CustodyProofs` | theorems about `PassportCustody`, `PassportRequests` and `AuthorizationStore` |
| `ShellProofs` | theorems about `Tabs` and `WalletBalance` |
| `PageProofs` | theorems about `PostPublish` and `FollowingFeed`, lemmas about `FeedDocuments` |
| `PaymentServiceProofs` | lemmas about the payment service, for the two pages over it |
| `SiteVisitProofs`, `ContentViewProofs` | theorems about the paid pages |
| `MC...` | symmetry, views, constraints and constants for TLC |

Operators commented `Faulty:` are plausible mistakes in the definition that
follows them. No specification uses them: each shows, put in the place of that
definition, that a property can fail.

### State and code

`Files.dir` is the directory the process sees, `onDisk` the directories a power
loss may leave (all since the last directory sync), `file` each file's record,
how much of it is written and whether it was synced. `VaultStore.pc` is the
position in `write_encrypted_vault_atomic` (`w_`), `recover_interrupted_write`
(`r_`) or `remove_encrypted_vault` (`d_`). `AuthorizationStore.alone` is a
history variable: no two persists have overlapped so far.

In `PassportCustody`: `vault`, `tmp` are the two files, by passport and format
version; `sealed` the two keychain accounts, which sealing overwrites; `ack` the
marker (the fingerprint of a phrase, that is, of a passport); `descriptor`,
`authRec` the public files; `vmk` the key in `DesktopOperationalVaultSessionStore`;
`pendRec`, `pendOp` the pending factor sessions; `capability` the capability
session. `main` is the step of the running command (`c_` create, `u_` and `m_`
unlock and migration, `l_` lock, `r_` root confirmation, `p_` and `s_` ceremony
with the pending or the stored factor, `x_` clear), `arg` the passport whose
factor it holds. Two history variables: `acked`, the passports whose phrase was
acknowledged, and `confirmed`, the passport whose creation was answered
`created_locked` until a clear begins.

A passport stands for its pair of random factors and everything derived from
them: phrase, root identity, device key. Key derivation, encryption and
signatures are modelled by what they compare: opening succeeds with the factor of
the vault's passport and a right PIN, and the PIN is right or wrong by choice.

A vault write inside a command is one step, `FailedWrite` when it fails or is
cut short. Its outcomes are those that `VaultStore` can leave: nothing done, the
old temporary file gone, an incomplete or complete new one, or the new vault.

In `PassportRequests`, `step[j]` is the position of command `j` (`i_` issuance
or possession proof, `k_` claim, `a_`/`b_` authorization before and after it was
found missing, `g_` root registration), `root[j]` and `device[j]` the passports
of the descriptor or capability and of the device key (or vault) that it read.

In `LocalFollowing`, `store` is the record as stored (an absent one is the empty
record), `view[v]` a profile view with the copy it works on (kept while a request is
under way and when it fails) and the record that its request will be answered with, `run[r]` a refresh: whom it selected, what it hydrated, what it re-read.
Three history variables: `asked`, whom the user last asked to follow; `stale`,
the views and refreshes that somebody else has written since they read; `lost`, whether some write
replaced a record its writer had not read. A command of the store succeeds,
fails, or lands and answers an error.

In `FollowingFeed`, `run[r].step` is the position in `refreshLocalFollowingFeed`
or `loadOfflineLocalFollowingFeed` (`o_`), `current` the load whose effect is
alive, `feed` what the page shows. `eligible[r]` (history) is whom the offline
projection of load `r` may show; `lost` (history) whether a load replaced a cache
it had not read, and `seen` every publication cached until then.

In `ContentView` and `SiteVisit`, `gate` or `mount` numbers the mounts of the
page, `status` and `quote` are the gate's state, `canView` or `access` what it has
published to the view, `bytes` or `root` the view's fetch, `live` the fetch whose
effect was not cleaned up, `fetches` all not yet answered. A request is a record
with its number, its mount, its quote, payer and idempotency key;
`PaymentService.charges` is the ledger.

In `PostPublish`, a draft is the text (what `workflowKey` is made of) and the rest
of what is published (warning, language, kind), which is not. `prepare`, `hold`,
`publish` are the three states with what their answers are for, `nonce` the field,
`lastNonce` the hint stored in the browser, `published` the answered publications
that await the wallet's balance before they set a timer, `opening` the auto-open
timers. A key
consists of what the code writes into it: size, amount, nonce, and the retry's.

In `Tabs`, `pending` is the state that the updates called so far give, `waiting`
how many were called since the first that is not rendered, `shown` the rendered
state (React computes it from the same updates in the same order, so that it
catches up with `pending` when they are rendered), `due` whether the location effect has yet to run, `web` the web
view's history with the effect's write mode, `popped` a popstate under way.

In `WalletBalance`, `truth` counts each account's transfers, `wallet` is
`walletState`, `refreshes` the balance requests with the state their callback has
captured, `callers` the callbacks that pages hold. History: `newest`, the newest
balance shown of each account; `mixed`, whether a page has refreshed, or a reset
has hidden a refresh under way.

## Runs

Invariants named `...Inv` are `TypeOK`, the module's main safety invariant and,
where a theorem is proved, what that needs to be inductive: TLC checks on its
instance the invariant that the proof takes for every instance.

| Run | Bounds | Shows |
|---|---|---|
| `vault_store` | 2 vaults, 3 files | what was confirmed is durable (`VaultInv`), no leftovers block a call or start (`NeverStuck`), refinement of `DurableCell` |
| `authorization` | 2 records, 2 files, 2 persists beside a clear | a readable record is never replaced (`WholeRecordStays`), no call gets stuck; while calls follow one another a conflict fails closed, Written is durable, no record is torn |
| `custody` | 3 passports | all custody properties and the inductive invariant |
| `requests` | 2 passports, 2 commands | refinement of `PassportCustody`; proofs name their signer |
| `late_capability` | 2 passports, 1 command | expected violation, see below |
| `following` | 2 creators, 2 views, 1 refresh, 2 clock readings | the record is what the user asked for and what reads are answered with, fresh views show it, refresh times never go back, until a write is lost |
| `content_view` | 5 requests, 2 wallets, 2 mounts, 2 fetches | content is open only by this mount's charge, bytes only while open, refinement of `PaidGate` |
| `site_visit` | 6 requests, 2 wallets, 2 mounts, 2 fetches | the same for the root document; the gate settles; a visit stays open |
| `post` | 5 requests, 2 warnings, 1 page, no waiting | one post per hold, every post is paid, an answered publication has spent its own hold, every step ends |
| `post_retry` | 6 requests, 2 texts, 2 pages, the user waits | one post per hold, trying again holds once |
| `post_other_bytes` | 3 requests, 2 warnings, 1 page, the user waits | expected violation, see below |
| `shell`: tabs | 2 tabs, 2 addresses, histories of 3, 1 refresh, web history of 2, 2 waiting updates | a tab shows its current entry, the location shows the active tab |
| `shell`: balance | 2 accounts, 2 transfers each, 2 refreshes | a shown balance is real; with the chip alone it never goes back |
| `shell`: feed | 2 creators, 2 loads, feed and cache of 1, 1 clock reading | the cache is the newest of what it was given, loading is always under way, unfollowed creators do not appear offline |

*Passport runs.* No bound is on the length of a behaviour: faults, crashes,
restarts and retries may come any number of times. Two vaults suffice to tell
the old from the new; three passports let a stale vault, a stale factor and a
fresh passport differ. When every passport has left a trace, `Fresh` is empty and
no further one is created until a clear. `Inodes` bounds the files named in a
directory that a power loss may still bring back; `BeginWrite` and `Call` wait
for a free one. Three are needed for the vault, a leftover temporary file and a
new one; two suffice for the authorization store, whose calls remove what they
find before they create. The theorems below have no bound.

*Following and feed.* Clicks, failures and retries are not bounded. Two creators
tell the one clicked from the one overwritten; two clock readings can go on and back.
The feed and cache of one item are full at once, so that every merge drops
something, and the pages hold a newer, an older and a private publication.
`CreatorLimit` is 1 in `following`, so that one refresh does not read everyone.
`NothingLost` cuts a behaviour of `following` where `lost` becomes true: the
properties claim nothing after it.

*Window.* `MCShell` puts `Tabs`, `WalletBalance` and `FollowingFeed` into one run.
No action of one reads or writes a variable of another, so that each property
concerns the behaviour of its own module only: a behaviour of the run moves one of
the three and leaves the others as they began.

*Paid pages and posts.* `MaxRequests` bounds the requests of one behaviour: four
are a quote, a payment that is lost, another quote and another payment; the fifth
of the content view is the quote that new settings send for a page about to be
taken down, and with six a site goes through a payment on two mounts. Of a post,
three requests are a prepare, a hold and a publication; five make two holds and two
publications after one prepare, six a hold lost and repeated on two pages. In `post`
the user edits, leaves and clicks at any time, drafts are of one size and prepare
answers name a nonce; other texts, which reset the flow, and pages opened again are
in `post_retry`. The models stop when the bounds are used up, so these runs and `shell` do not check for deadlock.

*Settings.* New settings reach a mounted paid page one commit before its resolver
takes it down: the content view's gate quotes once more, for the new wallet, and an
open view's effects fetch once more. `SettingsChanged` of both pages sends these
requests and takes the page down in one step: no click is assumed between the two
commits, which React makes one right after the other.

*Tabs.* Histories of three have a back and a forward at once. Of two tabs one is
closed, opened or left while the other waits, and each is the other's neighbour
around the end. `MaxTick` bounds the refreshes of all open tabs, `MaxEntries` the
web view's history: a step that would need more is not taken.

*Symmetry* is used in runs of invariants, step properties and refinement, never
with liveness. Values, files, passports, creators (in `following`), wallet accounts
and the slots of calls, views and loads are used only through equality. *Views*: an
unused file's old contents are overwritten before anything reads them. A profile
view's record is read only when it is ready, and replaced before it is ready again.
`requests` leaves out the history variables `acked` and `confirmed`, which no guard
reads and which the step properties of that run do not need; their invariants are
checked in `custody` and proved for the composition.

## Fairness and progress

`SiteVisit` (`FairSpec`) and `PostPublish` (`PostFairSpec`) have weak fairness of the end of
requests (and of fetches), not of the refresh of the balance after a publication. The code's justification: `GatewayClient.request` sets
a timeout on every request, and the native gateway command has its own, so that
each request the page awaits ends, in an answer or an error. Nothing is assumed
of the services or of the user. `GateSettles` and `StepsEnd` follow from it and
from every error path leaving the state in which buttons are disabled.

Store calls and feed loads are straight-line code without loops or waiting, so
that they return unless they get stuck. `NeverStuck` states this as an
invariant: in every state a call under way has a next step, whatever files
failures, crashes and other calls left. `LoadingIsUnderWay` states that an open
page that says loading has a load under way that can go on. No fairness is assumed of
prompts, so nothing is claimed about the end of a command that awaits a user.

## What is assumed of the services

`PaymentService`: a quote request charges nothing and makes a quote of its own;
a payment is charged once for each idempotency key. (The quote requests carry a
stable key of their own, `T/shared/api/contentViewClient.js:53`; the model takes no
quote to be another's.) `HoldService`: a known key is
answered with the hold made under it; an unknown one makes a hold if its nonce is
the expected one, and is refused with the expected nonce otherwise; the post
route publishes once for each key. These are what the clients are written
against (`T/shared/api/`, `docs/tauri/PAID_ACTIONS_AND_RECEIPTS_IDB.MD`); the
services are not in the repository.

## Where code and documents differ

Two differences are runs of their own, each with an expected violation:

- `LockedHoldsNoCapability` (`late_capability`): an issuance in flight stores a
  capability after lock or clear dropped it
  (`S/passport_capability_http_runtime.rs:362`); `S/commands/passport.rs:4` states
  that lock and clear drop native capability authority.
- `HoldIsForContent` (`post_other_bytes`): `workflowKey`
  (`T/pages/post/PostPublishFlow.jsx:100`) leaves out the content warning, language
  and kind, so that an edit of them keeps the prepare and the hold, and the hold
  pays for other content. `docs/tauri/PAID_ACTIONS_AND_RECEIPTS_IDB.MD:669`: "A hold
  for one object/context must not be reusable for different bytes or a different
  paid action." The same comes of answers that arrive after an edit, which are taken
  for the new text (line 231), and of keys that name a draft's size and not its
  content (line 866).

The others bound what the passing runs claim; the conditions of the properties
(`alone`, `lost`, `mixed`, the constants of a cfg) name them.

- `recover_interrupted_write` (`S/passport_vault_store.rs:392`) promotes a
  leftover temporary file when there is no vault, also one that is incomplete or
  unsynced; line 4 states "temporary-file sync before rename". `DurableCell` has
  this as its one exception: an interrupted *first* write may leave a torn vault.
- Two overlapping `persist_verified_once` share the temporary name, and
  `hard_link` (`S/passport_device_authorization_store.rs:266`) publishes the other
  call's record; line 7 states "conflicting record fails closed". Hence `alone`.
- `passport_clear` clears the authorization and the descriptor before it drops
  the session (`S/commands/passport.rs:389`); line 376 states "Native-only
  sessions are dropped first".
- Root registration looks at the session only before its first await and signs
  with the root afterwards (`S/passport_register_root_http_runtime.rs:449`); line
  231 states that it fails closed unless the session is unlocked.
- `persistHydratedRefreshMetadata` re-reads the record, awaits, and writes it
  back whole (`T/pages/home/localFollowingRefreshPersistence.js:220`): a click in
  between is undone, and of two overlapping refreshes the older may win. Its
  lines 3 and 5 state "without overwriting concurrent local follow changes" and
  "stale metadata never wins". Hence `lost`, and one refresh.
- `persistHydratedFeedCache` does the same to the cache
  (`localFollowingFeedCachePersistence.js:87`); line 5 states it "never regresses
  cachedAt". Hence `lost` in `FollowingFeed`.
- The Home page never asks for a second batch of creators (`HomePage.jsx:499`):
  only the first 16 are read, though line 602 speaks of each followed creator.
- A paid page's first commit starts a byte fetch before any quote
  (`T/pages/asset/AssetHydratedView.jsx:118`), against "fetch only after backend
  proof" (`docs/tauri/INTERNAL_ROC_STABILIZATION_RENDER_LOCK.md:6`); its answer is
  dropped, which `BytesOnlyWhileOpen` checks.
- A quote is paid once, but a view or visit can be paid twice: under a new quote
  after a timeout (`T/pages/site/SiteVisitAccess.jsx:487`), or after the address
  was entered again (`AssetContentViewAccess.jsx:311`);
  `docs/tauri/PAID_ACTIONS_AND_RECEIPTS_IDB.MD:1604` asks to avoid double spend
  on timeouts and reloads. `PaidGate` promises one charge per quote only.
- The auto-open timer of a published post navigates whatever tab is active by
  then (`T/pages/post/PostPublishFlow.jsx:489`).
- A publication's key is its hold's (`PostPublishFlow.jsx:405`), so that publishing
  again after a lost answer and an edit that resets nothing is answered with the post
  of the first content; line 264 of the document: keys must be "different for
  materially different actions". Hence `AnswerIsPaidFor` is about the hold and not
  about the content.
- A hold repeated after nonce recovery has a key made of the recovered nonce
  (`T/shared/api/walletClient.js:82`). If its answer is lost, the next click starts
  from the first nonce again, recovers another one and holds a second time; line 264:
  keys "must be stable for retries of the same action". Hence `RetryHoldsOnce` is
  about wallets where no nonce had to be recovered.
- A prepare answer may name a nonce, which replaces the field's
  (`PostPublishFlow.jsx:242`): after a lost hold that is another nonce and key, and the
  next click holds a second time. Hence `TemplateNonce = FALSE` in `post_retry`, which
  also has one warning and a user who waits (`WaitsForAnswers`).
- A failed refresh marks stale the balance its callback captured, not the current
  one (`T/app/appContext.js:542`), and a switch of the account keeps the other
  account's balance as fresh (line 176). Hence `mixed`, and a balance that is
  attributed to the account it was read for.

## Proofs

The theorems hold for every value of the constants that satisfies the named
assumption of the module, which says no more than that the markers (`None`,
`NoFile`, `Absent`, `Torn`...) differ from real values and that numbers are
numbers: any number of passports, files, calls, creators, views, requests,
wallets. Each proof has the same outline: an invariant that the initial states
satisfy and every action preserves, one lemma per action or group of actions,
and the theorems as its consequences.

| Module | Theorem | Property of the runs |
|---|---|---|
| `CustodyProofs` | `CustodyIsKept`, `SessionSafety`, `PendingSafety`, `CreatedSafety`, `PhraseSafety`, `ClearOrder`, `ClearIsComplete` (and `CustodyTypes`, `DescriptorSafety`) | `CustodyInv` and the rest of `custody` |
| | `RequestsAreSafe`, `JobsTypes`, `RequestsImplementCustody`, `ProofsNameSigner` | those of `requests` |
| | `RecordsStay`, `AuthorizationIsWhole`, `ConflictsFailClosed`, `WrittenSurvives` | `WholeRecordStays`, `AuthorizationInv`, `ConflictFailsClosed`, `WrittenIsDurable` |
| `VaultStoreProofs` | `VaultIsSafe`, `VaultIsDurableCell` | `VaultInv`, `IsDurableCell` |
| `SiteVisitProofs` | `SiteIsSafe`, `OpenStaysOpen`, `SiteKeepsPromise` | `SiteInv`, `OpenUntilRemount`, `KeepsPromise` |
| `ContentViewProofs` | `ViewIsSafe`, `BytesStayLocked`, `ViewKeepsPromise` | `ViewInv`, `BytesOnlyWhileOpen`, `KeepsPromise` |
| `LocalFollowingProofs` | `FollowingIsKept`, `ViewsAreTrue`, `RefreshTimesGrow` | `FollowingInv`, `FreshViewIsTruth`, `RefreshNeverRegresses` |
| `PageProofs` | `PostsAreSafe`, `AnswersArePaidFor` | `PostInv`, `AnswerIsPaidFor` |
| | `RetriesHoldOnce` (under conditions) | `RetryHoldsOnce` |
| | `CacheStaysReadable`, `CacheIsNewest` (under a condition), `OfflineShowsFollowed` | the types in `FeedInv`, `FeedInv`, `OfflineIsFollowed` |
| `ShellProofs` | `TabsAreSafe`, `LocationFollows` | `TabsInv`, `LocationShowsActive` |
| | `BalanceIsReal`, `ShownStaysNewest` | `BalanceInv`, `ShownIsNewest` |

A theorem that holds only under a condition on the constants has it as a named
hypothesis. The conditions are true of the constants of the run that checks the
same property, and each is there because the property fails without it:

| Theorem | Hypotheses | Without them |
|---|---|---|
| `RetriesHoldOnce` | `WaitsForAnswers`: one click waits for the answer to the one before | of two holds under way the one is made, the other refused, repeated with the next nonce and made beside it |
| | `OneWarning`: drafts differ in what `workflowKey` is made of | a hold prepared for the old warning is repeated with the new size in its key |
| | `~TemplateNonce`: prepare answers name no nonce | preparing again after a lost hold moves the nonce on, and the next hold is a second one |
| `CacheIsNewest` | `NeverChanges`: timelines keep what they publish | of two copies with one identity only the later is cached, as the code means to |

The code enforces none of the first three: `RetriesHoldOnce` says what a user who waits
can rely on. `PostsAreSafe`, `AnswersArePaidFor`, `CacheStaysReadable` and
`OfflineShowsFollowed` have no condition.

### Passport

That the session is of the vault, say, survives `ClearVault` only because a clear
dropped the session at an earlier step and no step in between opens one.
`CustodyInv` adds what each command relies on at each of its steps: `CreateInv`
(no vault while creating; pending and sealed factors are the new passport's),
`FactorInv` (factors in memory are of the vault), `ClearInv` (what a clear has
behind it), `AckInv` (the marker outlives every vault file that could bring its
passport back). There is one lemma per command, and where an action disturbs
several conjuncts (writing the new vault, crash, start) one step per conjunct. The
conjunct that pending factors are the new passport's came out of a failed proof.

For any number of concurrent commands each step of `PassportRequests` is a step of
`PassportCustody` or leaves custody alone, with the strengthening `SignerInv` (a
command about to sign has compared what it read), so every custody theorem also
holds of the composition.

### Stores

*Vault.* That a confirmed vault survives a power loss is a statement about every
directory the disk may still hold, not about the one the process sees. The
inductive invariant says so: `DiskIsOffered` (each of those directories names only
files of vaults offered since the last confirmation, and a whole synced one
unless the store may be empty) and `StepsAgree` (what each step of a call finds
done: the temporary file is written before it is synced, synced before it is
renamed). `DiskIsAllowed` draws from it that all a reader can find is what
`DurableCell` allows, and `StepIsCell` maps each system call, crash and power loss
to a step of the cell or a stutter: a call offers when it begins, the step after
its last directory sync confirms, and all between only drifts within what is
offered.

*Authorization.* `RecordsStay` needs only `FilesOfCalls` (each call writes a file
of its own, empty until it is written, so that no call writes into a file that can
be read), and holds however calls overlap. The other three hold while `alone`, by
`CallsInTurn`: only whole synced files are published (`OnlyWhole`), the temporary
name is the running call's own file unless a clear took it (`OnCourse`), and what
was answered is the record stored (`AnsweredIsStored`). `clear` runs beside a call
between any two of its steps; `ClearInTurn` is the lemma about it. That a short
write harms no published file is the reason for the conjunct that a file being
written is not synced.

### Paid pages

`PaymentServiceProofs` has the lemmas on the service alone: numbers of requests
differ (`NextIdIsNew`, by cardinality), a payment goes by the key of its own quote
and the ledger holds one transfer for each key (`ServiceInv`, kept by sending,
serving, answering and failing), so that serving a payment charges its quote by one
at most once (`ServeCharges`). Each page adds to it that a request of this mount
bills the wallet shown, that at most one payment is awaited and only while paying,
and that an open gate has its charge in the ledger (`GateAgrees`,
`OpenUnderCharge`), and what its fetch has asked for (`RootAgrees`, `FetchAgrees`).
A late answer falls under `LateKeeps` (its mount is gone) or is met by
`GateAgrees`. The refinement maps `PaidGate`'s ledger to the number of transfers of
each quote and its open quote to the one access stands under; a step of the
page is a charge, an opening, a closing, or a stutter.

### Balance and following

`BalanceInv` and `ShownIsNewest` are inductive together. A refresh takes what the
ledger says when it is read and shows it when it is answered: `PendingAreReal`
says that the value on its way was real, and `OneAtATime` that with the chip alone
there is no second one to overtake it.

`FollowingInv` adds to what the user asked for that whoever has read the record, and
whom nobody has written over since, is answered with what is stored or about to write
back what is stored (`ReadIsStored`), and that a ready view then holds it
(`FreshViewIsTruth`). While a request is under way or has failed a view has its old
record, from which nothing can be clicked: a write that landed and was answered with
an error shows only after the retry has read again. The lemmas are about the record's pure changes, for any record
that can be read: following appends one creator, unfollowing removes one entry and
keeps the rest, and noting pages changes no creator and takes no time back.

### Publication

`FlowInv` holds however clicks, answers and failures fall: requests differ, the
services make one thing for each key, a post's key is its hold's
(`KeysAreUsedOnce`), and every answer tells of something that was done
(`AnswersAreServed`). `OnePostPerHold` is a consequence.

(`KeysAreUsedOnce` and `AnswersAreServed` also give `AnswerIsPaidFor`.) `HoldsAreMade`
adds that what the panel takes for a hold, sends with a publication or finds in a post
is a hold of the ledger, because the panel takes nothing for one but what the wallet
answered: `PostsArePaid`.

With a user who waits, `OneDraft` says that the one request awaited, and what was
prepared, are of the draft on the page; a late answer of an earlier page is dropped
by its mount, and an edit starts the flow over. `PricedByDraft` says that a hold's
key names the price of its own draft.

That a retry holds once is a statement about nonces. `NoncesAgree`: none is ahead
of the wallet's, and a refusal names another than was sent. As long as no hold was
made by a recovered nonce, three more conjuncts hold: nothing is more than one
nonce ahead of the hint (`NoFarNonce`); once a hold one ahead may have been made,
the page sends that nonce and no other, so that the next click repeats its key
(`FrontierIsKnown`); and a second try, under the nonce a refusal named, is made only
for what was not held at a nonce above the hint (`Refusals`). The action property is
then about the one step in which the wallet serves a hold.

### Feed

The order of publications is total on sets in which no two share an identity, and
`Rank` numbers them from zero without gaps (`RanksAreTaken`, from the cardinality
of initial segments), so that `Chronological`, which the model defines by rank and
not by a recursion, is that set's one sorted sequence (`ChronologicalIs`).
`FirstOfFirst` is the lemma behind the cache: adding to the first fifty of a set
and taking the first fifty again is adding to the set and taking its first fifty.
With it `MergedIsNewest` shows that merging into a cut cache loses nothing that
belongs in it, and `CacheStep` that no failed read, failed write or overlapping
load does either, until one replaces a cache it had not read. `FeedSafe` types what
each load holds at each step, and says of an offline load that whom it may show
includes all it reads as followed (`OfflineOf`).

### Shell

`GoodStates` are the tab states that can be shown: one to `MaxTabs` tabs of
different ids, the active one among them, each at the entry of its history that is
its route. There is one lemma for each updater; `EventKeeps` lifts them to both the
rendered state and the one that waits. An id is always free because the two states
have at most `2 * MaxTabs` between them (`FewIds`). `LocationIsWritten` says what the
location effect leaves: what it wrote last is the active route unless it is still
due, and the location is what was written unless the web view has moved since.

### Only model-checked

- Liveness (`GateSettles`, `StepsEnd`) and the invariants stated with `ENABLED`
  (`NeverStuck` in both stores, `LoadingIsUnderWay`): beyond the prover.
- `LockedHoldsNoCapability`, which fails.

## Not modelled

- Power loss in `PassportCustody`: the small stores are atomic there and only
  the process dies. Power loss is in the two store models. The native stores of
  following and feed cache have the vault store's file protocol and are one
  step in `LocalFollowing` and `FollowingFeed`.
- svc-passport, the gateway's services, cryptography and clocks: an answer is
  accepted, or the command fails. Expiry of a capability is the action `Expire`.
- Windows: the model is of the Unix code (directory sync, rename replaces), and
  sealing is macOS's.
- Poisoned mutexes; links or directories in place of the store's files.
- `ensure_root_directory` creates the vault's directory without syncing its parent
  (`S/passport_vault_store.rs:122`); `VaultStore` starts with a directory that lasts.
- `navigate` with `replace` and opening a tab without activating it: `useRouteState`
  offers both, no page calls them.
- In the post flow, a change of the passport subject or wallet account (which resets
  it, lines 108-109, and reloads the nonce, line 124), and the nonce and escrow fields
  that the user may edit.
- Video, audio, text and segment fetches of paid assets (as the image bytes);
  the thread memory of the post flow; identity refresh and
  gateway check of the shell.
- Most of the repository's JavaScript is forms, layout, parsing of addresses and
  answers, and document templates. It keeps no state that two actors share, and a
  model of it would repeat the code; the publication flows of other asset kinds
  repeat the post's. The map therefore covers a small share of all lines, and the
  reasons part by part are in `PROJECT.json`.

## Plan

Every safety property of the runs that does not speak of `ENABLED` is proved. What
is left is breadth: of what is not modelled, the video job table and the
television's pairing and PIN lifecycle are the next candidates, then the other
publication flows as instances of the post's.
