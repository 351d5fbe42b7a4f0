# Verification of Torobcar

Torobcar is a used-car marketplace: a FastAPI backend (`src/backend`) over PostgreSQL and
Redis, and a Next.js frontend (`src/frontend`).  This directory holds TLA+ models of the
parts of it where several actors meet, the TLC runs that check them on small instances,
and TLAPS proofs of the most important properties for every instance.

Paths below are relative to `src/`.

## 1. The system

### Who runs, and what they share

* **Requests.**  One worker process (`fastapi run main.py`) serves all requests as
  coroutines of one event loop.  Every `await` (a statement, a hash, a call of the model,
  a call of Redis) lets any other request run.  A request owns one database session, which
  is one PostgreSQL transaction at the default level, READ COMMITTED: each statement sees
  the rows committed when it started, an `UPDATE`, `DELETE` or `SELECT ... FOR UPDATE`
  waits for the row locks of others and then re-reads the row, and locks are kept until the
  transaction ends.  `db/session.py:get_session` commits once, at the end; with the pinned
  FastAPI (0.141, see `backend/uv.lock`) that is **after the response was sent**.
* **The ingest** (`python -m ingest file.csv`) is a process of its own, one transaction long.
* **Redis** holds rankings, facet counts and parsed queries.  It has no persistence and
  evicts the least recently used keys (`.docker/compose.yml:76`).
* **Browsers** hold cookies (an access and a refresh token) and a copy of the account's lists
  in `localStorage`.  Their tabs share both, and every tab runs its own state machine
  (`state/AppState.tsx`): it reads the stored copy once, when it is opened, writes its whole
  copy over it at every change, and knows of a sign-in only if it made it.

### Components

| Component | State | Operations | What is hard | What makes it correct |
|---|---|---|---|---|
| Administration of users (`services/admin_user_service.py`) | rows of `users`, `admin_audit`; row locks | PATCH role/activity, reset password, delete | overlapping admins, lock waits and deadlocks, roles read before they change | an active admin remains; each change is recorded, once and truly; requests end |
| Sessions (`services/auth_service.py`) | `password_hash`, `token_version`, `is_active`; tokens held by clients | login, refresh, reauth, change password, logout everywhere | tokens outlive the row they were issued from; hashing between read and write; commit after response | revoked is revoked; a session belongs to somebody who knows the password; freshness is presence |
| Guest allowance (`services/anonymous_chat_limit.py`) | one counter and window per address | reserve, commit, roll back | questions in parallel, answers that fail or are cut | never over the limit, never overcharged, no refusal without reason |
| Event stream (`api/assistant_stream.py`) | the transaction of one answer | charge on first text, commit, cancel | cancellation between commit and send | as above; transcript matches what was read |
| Search cache (`core/cache.py`, `services/search_service.py`, `services/facet_service.py`) | version counter, versioned entries | get, set, bump | a version read before, an entry written after; two servers without a common transaction | bounded staleness; stale entries die |
| Ingest (`ingest/`) | listings, catalog, cities | map, upsert, count, estimate, bump, commit | a file that changes some rows and with them the estimates of others; rejects; a crash anywhere; order against the cache | one transaction or nothing; counts and estimates are those of the rows; the same file twice changes nothing |
| Stored chats (`services/chat_service.py`) | chats and messages | ask, list, read, delete | two tabs, delete during an answer | turns stay whole and in order |
| Account lists (`services/account_service.py`) | saved listings, alerts | save, unsave, alert, import | several devices, imports twice, a commit after the answer | import is idempotent; no loss |
| Browser account state (`state/AppState.tsx`, `lib/account.ts`) | saved list, alerts, owner | toggle, add and remove alerts, sign in with import, load, logout | optimistic updates and their reverts; copies left by a session that ended; tabs that share cookies | the browser ends up with what the server has; one account's lists never reach another |
| Browser chat panel (`state/AppState.tsx`, `lib/chat.ts`) | transcript, active chat, list of chats | send, open, start, delete | answers arriving late, abort | a reply lands under its own question; the panel is busy with the open turn only |
| API client (`lib/api/client.ts`) | shared refresh | request, refresh, replay | many expirations at once | one refresh, one replay, nothing carried out twice |
| Search (`services/query_parser.py`, `llm/rules_parser.py`, `services/intent_resolver.py`, `services/search_service.py`, `services/facet_service.py`) | memo of parsed queries | parse, filter, resolve, find candidates, rank, count | a model that may not answer, overrides, two queries over one intent, roundings | no near miss lost to a bound; closer never below; counts are what the search finds |
| Algorithms (`ranking/`) | none | estimate, rank, summarise | boundaries | every price counted once; a listing never validates itself; cheaper is never scored worse |

The administration reads, the listing pages, the text normalisation, the configuration and
the wiring keep no state that two actors share; they are listed in `PROJECT.json` with the
reason they are not modelled.  `PROJECT.json` also lists, under "hazards", every place found
so far where the code depends on an order it does not control, with the properties that
cover it, or why none does.

### How the components meet

* Administration and sessions write the same row of `users`.  `AdminUsers` follows roles,
  activity and existence of several accounts; `AuthSessions` follows password, version and
  tokens of one.  They share the statement `token_version = token_version + 1`, which both
  model as the database's increment.
* The assistant calls search, and for a guest the allowance, in one transaction; the
  allowance is therefore held for as long as the model takes to answer.
* Searches and the ingest meet only in the database and in Redis, without a common
  transaction.
* The browser's lists are merged into the server's at sign-in (`POST /me/import`): `Account`
  composes the two sides and what is in flight between them.
* The chat panel calls through the API client: `AssistantPanel` extends `ApiClient`.  What the
  server does with a turn is `ChatTurns`; here the server only answers, late or never.
* The ingest calls the estimator, whose results the model pages summarise: `Ingest` extends
  `ModelStats`, which extends `Estimator`.  A search ranks what the candidate query finds:
  `SearchQuery` extends `Ranking`.

## 2. Modules

| Module | Models | State | Actions |
|---|---|---|---|
| `AdminUsers` | `admin_user_service.py`, its repository, the audit recorder, `require_fresh_admin`, over PostgreSQL's row locks | `users`, `audit` (committed); `locks`, `pc`, `req`, `loaded`, `scan`, `found` (per request) | `Receive`, `Load`, `LockActiveAdmins`, `LockNext`, `Decide`, `Write`, `WriteAudit`, `Commit`, `Abort`, `BreakDeadlock` |
| `UserLedger` | what the administration promises: one atomic, truthfully recorded change | `users`, `audit` | `Record` |
| `SearchCache` | the cache protocol for one question | `generation` (PostgreSQL), `version`, `cache` (Redis), `ingest`, `search`; `intact` (history: Redis has not lost its keys) | `ComputeKey`, `AnswerFromCache`, `Miss`, `MakeRanking`, `Store`; `Upsert`, `BumpDataVersion`, `CommitIngest`, `FailIngest`; `ExpireEntry`, `Forget` |
| `GuestQuota` | the allowance of one address | `row` (committed), `time`, `pc`, `now`, `draft` | `Ask`, `Reserve`, `Refuse`, `Reply`, `CommitReply`, `ChargeOnText`, `SendText`, `SendDone`, `SendOnlyDone`, `Fail`, `Tick` |
| `AuthSessions` | the sessions of one account | `user` (committed), `tokens`, `entered`, `time`, and per request `pc`, `kind`, `claims`, `loaded`, `draft` | `Load`, `Write`, `Respond`, `Commit`, `Fail`, `Tick` |
| `ChatTurns` | the turns of one stored conversation: `chat_service.py`, its repository, both assistant routes | `stored`, `messages` (committed), `told`, `clock`, `holder` (the row lock), and per request `pc`, `kind`, `route`, `context`, `draft` | `Receive`, `CreateChat`, `SavePast`, `OpenChat`, `LoadMessages`, `Answer`, `TouchChat`, `InsertQuestion`, `InsertReply`, `Remove`, `CommitTurn`, `CommitRemoval`, `Respond`, `Fail` |
| `Account` | `account_service.py`, its repositories, `lib/account.ts` and the account part of `AppState.tsx` | `saved`, `alerts` (tables), `open` (transactions answered, not committed), `calls` (in flight); `cookie`, `stored` (of a browser), `me`, `blob` (of a tab); `strayed`, `overlap`, `doubt` (history) | `ToggleSaved`, `ToggleCompare`, `AddAlert`, `RemoveAlert`, `SignIn`, `Logout`, `SessionEnds`, `Reload`; `Replay`; `SaveListing`, `UnsaveListing`, `CreateAlert`, `DeleteAlert`, `ImportReads`, `ImportWrites`, `LoadWho`, `LoadLists`, `Commit`, `Rollback`; `Settle`, `Fail`, `Drop` |
| `ApiClient` | `lib/api/client.ts` | `requests`, `refreshing`, `token`, `aborted` | `Handle`, `Expired`, `Breaks`, `Refresh`, `TokenExpires` |
| `AssistantPanel` | the chat panel, on `ApiClient` | `signedIn`, `busy`, `current`, `navigation`, `messages`, `active`, `chats`, `shown`; `stored` (server) | `SignIn`, `NewChat`, `Logout`, `SendChat`, `OpenChat`, `DeleteChat`; `Serve`; `Streaming`, `TurnEnds`, `Opened`, `Listed`, `Deleted` |
| `Estimator` | `ranking/estimator.py`, `services/estimate_service.py` | none: operators over a table of rows | |
| `ModelStats` | `ranking/model_stats.py`, `services/model_stats_service.py` | none | |
| `Ingest` | `ingest/` and the write side of the repositories, on the two above | `db` (committed), `tx` (the open transaction), `stage`, `file`, `version`; `lastFile` (history) | `Start`, `Upsert`, `Refresh`, `EstimateListings`, `BumpDataVersion`, `Commit`, `Crash` |
| `Ranking` | `ranking/closeness.py`, `ranker.py`, `weights.py` | none | |
| `SearchQuery` | parsing, overrides, resolution, candidate and facet queries, on `Ranking` | `stage`, `query`, `overrides`, `intent`, `memo`, `results` | `Ask`, `ParseCached`, `ParseByLLM`, `ParseByRules`, `Filter`, `Similar`, `RankIt`, `Answer`, `Expire` |
| `MC...` | instances for TLC | | |
| `...Proofs` | theorems | | |

Conventions.  A request is a process with a program counter; a step is what happens between
two `await`s that matter, and its name is the function's.  `draft` is the row as an open
transaction leaves it, copied to the committed row by the commit.  An operator whose name
continues that of the next one after an underscore (`Bumped_ReadModifyWrite`) is a plausible
bug of that operator; nothing uses it but the mutation test of the properties.

### Correspondence, and what is abstracted

**AdminUsers.**  `Receive` is the freshness guard, which reads the actor's row once.  `Load`
is `_load` and the guard up to its early return (line 115).  The guard's query is
`LockActiveAdmins` (its snapshot) and one `LockNext` per row, in the order of the ids, each
returning the row only if its newest version still matches.  `Decide` raises `LastAdminError`.
`Write` and `WriteAudit` are the flush; for a PATCH their order is not fixed, because the two
models have no `relationship()`.  The change is applied in `Commit` to the row as the lock
protected it; only columns whose value differs from the loaded one are written, as the unit
of work does.  Row locks follow PostgreSQL's conflict table (foreign keys take KEY SHARE).
Emails and summaries are left out; a password is known by the version only.

**SearchCache.**  A ranking is known by the generation of the data it was made from: the
oldest its queries may have read.  Keys of different questions never meet, so one question
is followed.  The version counter and the entries live in Redis and may fail call by call
("error") or be lost ("forget"); `Forget` may lose the counter and keep the entries, as an
eviction does.  Ingests are serial: the second would wait for the locks of the first at the
update of the city statistics.

**GuestQuota.**  The upsert and its `WHERE` are evaluated, as PostgreSQL does, on the row as
the last holder left it.  The JSON route commits after its reply; the stream commits before
the first text, or before `done` if there was no text.  `Fail` is every way for an answer to
end early, and what it leaves depends on whether the slot was committed by then.  The clock
is read before the wait.

**AuthSessions.**  Passwords are known by the request that set them.  Tokens are kept in a
set that only grows: whoever was given a pair may present it at any time, in any order, more
than once.  A pair stands for both tokens; the version of the access token is never compared
(`get_current_user` trusts the signature), that of the refresh token is.  A request presents
a pair it may present at that moment; requests refused at the door change nothing and are
left out.  `Respond` comes before `Commit`, and with `CommitMayFail` the commit may be lost.
The life of a refresh token (30 days) is longer than every run.

**ChatTurns.**  One conversation of one account is followed: the chat that exists already, or
the one that a request without `chat_id` starts.  The flush of `_record` is three steps, as
the unit of work sends it: the `UPDATE` of `updated_at` (`TouchChat`), which waits for the row
and raises `StaleDataError` if it is gone, then the question and the reply in a statement
each, because the question sets no `listing_ids` and the two cannot share an `INSERT`.  Each
is stamped when it is sent, and the transcript is ordered by the stamps alone; `clock` is
strictly increasing, which the comment in `_record` (`services/chat_service.py:155-157`)
assumes of microseconds and one host.  `get_owned` is two statements, the chat and then its
messages.  The JSON route responds before `get_session` commits, the stream commits before it
sends `done`.  A chat whose id was sent and whose commit then failed is `"gone"` although it
never was: whoever follows it gets the 404 of a deleted one.  The foreign key of
`chat_messages`, which would refuse the late messages of a deleted chat a second time, is left
out: `TouchChat` alone has to stop them.

**Account.**  A tab's `blob` is its `persistedRef`: the owner, the saved ids and the alerts, an
alert without `id` being one the server has not confirmed; `stored` is what the tabs of a
browser share in `localStorage`, which keeps no object identities (`Written`), so that a new
page cannot tell the alert whose call the old one made.  `me` is a tab's own, `cookie` its
browser's.  A call in flight carries the account its tab believed in (`who`) and the one its
cookies named when it was sent (`user`), and `Replay` sends it again under the cookies of that
moment, which another tab may have changed; that also stands for a sign-in of another tab
between a login's answer and the import it sends, which are one step here.  When nobody waits
for a call any more (a reload, a failure) the server may still carry it out.

A handler answers and leaves its transaction in `open`; `Commit` or `Rollback` follows, at any
time, before or after the answer arrives, and other calls run in between.  They see none of
its rows; a call that would write a listing's row which another has in hand waits for it, and
so does one that would delete a row that is being deleted.  The import is three steps, the read
of the stored alerts, the rest up to its answer, and the commit.  Merged: the insert of an import's listings is one step with the waits
for all of them, so two imports that wait for each other, of which PostgreSQL ends one, are an
import that fails; the two lists of a load are read at once; `localStorage` is written with
the change of the copy, not an effect later.  A request that changed nothing leaves no
transaction in `open`.
What an alert says is abstracted to who made it and with which operation, so that no two
alerts that were made have the same key (`_alert_key`); the leftovers of earlier visits of one
person are alike.

The history variables do not influence any action.  `strayed` says that an answer was handled
after its session had ended, that an alert was made or removed before the import had made the
copy the account's, or that a tab went on for its account while the cookies named another:
the three ways past `AccountsKeepApart`.  `overlap` says that alerts were stored by calls that
overlapped an import.  `doubt` collects, per tab, the things whose last change the tab's own
calls, one after the other, do not account for: two changes of one thing whose calls or
commits overlapped, an answer or a commit that was lost or came after its session, a change
under another account's cookies, and what somebody else committed in the account.  Lists that
are answered in time settle a doubt.  `ShownIsHeld` judges all other things, thing by thing,
so that what is in doubt of one says nothing of another.

**ApiClient, AssistantPanel.**  A request is a record with a phase.  `Handle` is a handler of
the server that runs, its answer arriving or not; `Expired` the refusal that comes before any
handler.  A refresh ends for all that wait at once, as the shared promise does.  The panel's
refs are its state, React's rendering is left out.  Operations of a user are named by numbers,
and a message by the number of its turn: the transcript is the greeting, then questions and
replies.  Buttons that `ChatPanel.tsx` disables while busy are guards.

**Estimator, ModelStats, Ranking.**  Pure functions, written over exact integers of a fixed
scale: factors and closeness in thousandths, weights in tenths, estimates in hundredths,
quotients truncated to these and `round()` modelled with its halves to even.  What a float's
last digits may decide is therefore not judged.  `SortedBy` is a sort by order
statistics: what quantiles and medians read is the k-th value, whichever listing has it.  `Distance`, `FreshnessDecay` and
`WordSimilarity` (haversine, an exponential, `pg_trgm`) are constants.

**Ingest.**  A file is a sequence of rows whose columns are read already; which columns are
blank or unknown is a set, and `FirstBad` follows the order in which `map_row` looks at them,
because it decides whether a row is rejected or the whole ingest stops.  A batch with one
token twice fails as PostgreSQL makes it fail.  `Crash` is any failure before the commit.

**SearchQuery.**  A text is a set of words, a typed query a sequence of clauses the regular
expressions recognise.  The model's answer is any of `LLMIntents` that passes the schema, or
none.  One request is followed at a time: requests share nothing but the memo and the ranking
cache, and the latter is `SearchCache`'s.

## 3. Runs

| Run | Instance | Shows |
|---|---|---|
| `admin` | 2 accounts, 2 requests, every operation, with fairness | a checked change leaves an admin (`GuardedChangeKeepsAnAdmin`); only a promotion opens the gap (`LockoutNeedsPromotion`); two checks never wait for each other (`GuardsNeverDeadlock`); refinement of `UserLedger` (`LedgerSpec`); `EveryRequestEnds` |
| `admin_lockout` | 3 requests, promotions among them | **violated**: `NoLockout` |
| `search_cache` | 2 searches, 2 ingests, every fault, with fairness | until Redis loses its keys the current entry, and an answer, are at most one ingest behind; whatever it loses, `EventuallyFresh` |
| `search_cache_stale` | no fault at all | **violated**: `NoStaleAnswer` |
| `guest_quota` | 3 questions, limit 2, window 2, 5 ticks, with fairness | `WithinLimit`, `CountIsHonest`, `RefusedOnlyWhenSpent`, `WindowsDoNotSlide`, `EveryQuestionEnds` |
| `auth_sessions` | 4 requests of every kind, 4 ticks, window shorter than the token | `LiveSessionsKnowThePassword`, `BumpRevokesAll`, `DeviceStaysSignedIn`, `FreshMeansPresent` |
| `auth_takeover` | 3 requests | **violated**: `ChangeVerifiesCurrent` |
| `chat_turns` | 3 requests: start, follow, delete, on both routes; 2 earlier messages, a window of 2; with fairness | `WholeTurns`, `GrowsAtTheEnd`, `ContextHasNoHole`, `AnnouncedIsSaved`, `DeletedStaysEmpty`, `EveryTurnEnds` |
| `account` | 1 browser with 2 tabs, 2 accounts, 2 operations in each tab, a listing | one account's alerts reach another only in the three ways named in `strayed` (`AccountsKeepApart`); an import repeats an alert only if it overlapped (`ImportedOnce`); what a tab shows, and its own calls account for, is what the account holds (`ShownIsHeld`) |
| `assistant_panel` | 4 operations, 2 calls in flight, 1 older chat, with fairness | `BusyWithTheTurn`, `TranscriptIsItsOwn`, `HandledOnce`, `TurnsEnd` |
| `ingest` | 3 ingests out of 16 files of up to 5 rows, batches of 2 | `EstimatesCurrent`, `CountsCurrentWhereUsed`, `Idempotent`; and, over every table so reached, `BulkMatchesQuery`, `CheaperScoresNoWorse`, `BandHoldsEstimate`, `HistogramCountsAll` |
| `search` | 11 listings, 7 queries, 2 intents of the model, 8 sets of filters, similar of each | `GuardRailsKeepNearMisses`, `CloserNeverBelow`, `FacetsAgreeWithSearch` |

**Findings.**  The violated runs are disagreements between what the code does and what a
comment or a design note says of it; each is told step by step in `PROJECT.json`.

1. The last active admin can be lost, when a promotion overlaps a change of the promoted user.
2. An ingest bumps the version before it commits; the old ranking can be cached under the new
   version for up to ten minutes.
3. A password change that verified the old password may overwrite an administrator's reset.

**Known divergences**, met while modelling, which the models contain and no run is spent on:

* A PATCH that changes nothing, and the second of two deletes of one account, leave an audit
  row without a change (`admin_user_service.py:70`); `UserLedger` allows such a row.
* Disabling an account does not bump its token version, so its sessions return with it
  (`admin_user_service.py:66`), though the accounts design says that disabling bumps it.
* A password change whose commit fails after the response has handed out a pair of a version
  that the next bump makes valid (`db/session.py:29`); `AuthSessions` has it as
  `CommitMayFail`, under which `BumpRevokesAll` is false.
* Three ways past `AccountsKeepApart`: an answer that arrives after a logout, or after the next
  sign-in, is still applied (`AppState.tsx:226, 248, 263, 170`); an alert added between a
  sign-in and its import's answer sits in a copy without an owner, which the next sign-in, to
  another account, uploads (`AppState.tsx:231`), though `lib/account.ts:39` says that a leftover
  must never be imported into a different account; and a tab goes on for its account after
  another tab has signed the browser in to another (`AppState.tsx:233`).
* A listing saved and unsaved again, whose first call then fails, is shown as saved: a toggle
  is its own inverse (`lib/account.ts:21`) only if nothing was toggled in between.
* A change whose commit fails after its answer stays in the browser (`db/session.py:29`), and an
  unsave that follows a save's answer may run before the save's commit and delete nothing;
  `doubt` has both.
* A list of chats asked for before a logout fills the panel after it (`AppState.tsx:144`); an
  older list that arrives late shows a chat deleted meanwhile.
* Two overlapping imports, or an import after a reload with the alert's own call still on its
  way, store an alert twice (`account_service.py:88`).
* A filter that contradicts a bound the query stated is refused with 422, though
  `schemas/search.py:74` says overrides win.
* The ingest accepts years up to 1420 (`normalizers.py:68`), a search only up to the next
  year: "similar" of such a listing is refused.
* "Similar" finds the listing's own trim by similarity of words, so that a more common trim
  that contains all its words may be taken for it (`listing_service.py:18`).
* Facet counts of a search that names a brand and another's model count the model only, and
  none regards fuel and colour.
* A count of a catalog entry or a city without listings keeps its last value
  (`catalog_repository.py:96`).

### Bounds

* Two accounts are the fewest on which one admin can act on another, and two requests for two
  checks to meet; with no third account the guard is at its limit in almost every state.  Three
  requests are the fewest for "one in flight while two others change who is an admin", which is
  the violation.  The proofs of the safety properties remove the bounds.
* Two versions and generations let a search that began before one ingest store its entry
  after the next, and let a failed ingest put the two counters out of step.  Two searches:
  one writes the entry, another reads it.
* Three questions against a limit of two: the limit is reached by committed answers, by
  answers in flight, and by both; five ticks see a window opened, expired and opened again
  while a question that read the clock earlier still waits.
* Four requests on one account: two bumps and a session to be judged, with one more to come
  in between.  The proofs remove these bounds.
* Three requests on one conversation: two turns that overlap while a third deletes it, or one
  that starts it and two that follow.  A window of two over two earlier messages is passed by
  the first turn, so that what a context leaves out matters.
* Two operations in each of two tabs are the fewest for "signed in, and changed something" in
  one beside a sign-in, or a new page and what is done in it, in the other, in either order;
  with them every way past `AccountsKeepApart` is taken, and a session's leftovers are made by
  the model itself.  Two tabs of one browser meet in its cookies and its stored copy, and two
  that are signed in to one account meet there, as two devices would.  The accounts and the
  tabs are exchangeable (symmetry).  The proofs remove the bounds.
* Four operations of the panel: a turn, a way to abort it, another turn, and something that
  overtakes; two calls in flight are the fewest that can overtake each other.
* Three ingests see a table that is not empty, and one that moved back; five listings of one model are the fewest that
  put the minimum of comparables on both sides of leave-one-out for more than one basis.
* Eleven listings put one on each side of, and one at, every bound the queries state.
* `MaxVersion`, `MaxGeneration` and `MaxTime` appear only as guards.
* Requests (searchers) are interchangeable and reduced by symmetry, except under liveness.

### Fairness

* `AdminUsers`: a request whose next statement is not blocked runs (the event loop and
  PostgreSQL both serve whoever is ready), and a cycle of waits is broken after
  `deadlock_timeout`.  Nothing forces a request to arrive or to fail.
* `SearchCache`: a search goes on, and an entry expires, because `set_json` always sets a
  time to live.  Ingests are not forced to run; the bound on them is what "once ingests stop"
  means.
* `GuestQuota`: an upsert whose row is free runs, and an answer that was begun completes *or
  fails*: `assistant_timeout_seconds` bounds it.  Waiting for the row is not bounded by
  anything else, and needs no fairness of its own.
* `ChatTurns`: a statement whose row is free runs, and the model answers or
  `assistant_timeout_seconds` pass (`TimeOut`).  Failures elsewhere are never forced.
* `AssistantPanel`: every fetch settles and so does the refresh: a stream is ended by the server
  at the latest after `assistant_timeout_seconds`, and a broken connection fails.
* `AuthSessions`, `Account`, `Ingest` and `SearchQuery` state no liveness: nothing in them waits.

`CHECK_DEADLOCK` is on in every run: `Finished` marks the states where all is done.

## 4. Proofs

All theorems hold for every value of the constants that satisfies the named assumptions
(finite sets where cardinalities are taken, naturals for bounds), by an inductive invariant.

**AdminUsersProofs.**  `IInv` says what a lock protects.  A request past `Decide` that needed
the guard holds an UPDATE lock on every row of `found`, and at least one of them is not its
target; each row so locked is still an active admin, because whoever would change it needs a
conflicting lock first and `Commit` changes only the row its request has locked.  So at the
commit that other row is an active admin: `GuardIsSound`.  `LockoutTakesPromotion` adds that, as
long as the audit trail holds no promotion, a target loaded as a plain user still is one when
the change commits, so that an unguarded change never removes an active admin.  The condition
is essential: `admin_lockout` violates the property without it.

**SearchProofs.**  It holds the proofs of `SearchCache` and of `SearchQuery`, which share no
state.  `Recency`: while an ingest is between its bump and its commit,
whatever is or will be stored under the new version must be up to date, for the commit to
leave it only one behind; nothing refers to a version not yet reached; and what a search may
find under its key is no more than one ingest older than its beginning.  From it
`CacheIsRecent` and `AnswersAreRecent`.  All of it is conditional on `intact`: once Redis has
lost its counter the properties are false, and only `EventuallyFresh` remains, which TLC
checks.

`NearMissesKept` is about two roundings of one tolerance: the ranker's linear decay, above nought
only less than the tolerance away (`DecayWithin`), and the candidate query's bound, a rounded
percentage (`PercentWithin`).  They agree because a value is a whole number and the bound is
positive and in order (`WideningKeeps`), so the invariant, `QueryIInv`, is that the intent that
is ranked passed `CheckRanges`, whether it was made by the rules, the model, the memo with
filters over it, or from a listing.

`CloserIsNeverBelow` goes from criteria to positions.  Which criteria a search states does not
depend on the listing (`StatedAlike`), and each is graded by a share between 0 and 1000
(`AllGraded`), so a weighted sum is the size of a heap of counted units and grows with its terms
(`SumIsHeap`, `SumsGrow`); the average over the same weights, the tier and the rank grow with it
(`MatchGrows`, `NoFurtherRanks`).  The key of a candidate is a row of integers ending in its id, hence
two candidates never tie (`LexOrders`), and counting gives every place to exactly
one of them (`PlacesInOrder`, `PlacesTaken`), and what is returned is the beginning of that
order (`ResultsAre`, `ResultsInOrder`).  The invariant adds that the words of an intent come from
the vocabulary and that, once a search is done, `results` is what its intent ranks.

`FacetsCountTheSearch` says that two queries over one intent agree, under two conditions.
`NothingCut`: what the widened bounds find fits in `MAX_CANDIDATES` and `MAX_RESULTS`; a search
stops there, and a count does not.  `OneBrandPerModel`: a model asked for has listings of one
brand only; a count looks for the name of a model, a search for brand and model, and that a model
determines its brand is what the ingest's splitting of names aims at and does not guarantee.  The
proof goes listing by listing.  A range is scored in full exactly when the value is inside the
stated bounds (`RangeIsFull`; `DecayShort`: the least excess already costs something, which is
why `LinearDecay` is rounded so), and the vehicle, the city and the choices when they are those
asked for (`VehicleFull`, `CityFull`, `ChoiceFull`): what fits the search is what the scope
counts (`FitsIs`).  In the other direction a count has to be shown: what is inside the stated
bounds is inside the widened ones (`ReachIsInside`, `StatedIsFound`), all of that are candidates
(`AllAreCandidates`), a listing that fits or is silent on each criterion passes the cut-off
(`NearPasses`: no share is below it, so no weighted average is), and all that pass are shown
(`AllAreShown`).  So the counted and the found are the same listings (`CountedIsFound`,
`CountIsOfFound`), and the range over the scope encloses their prices (`PriceIsInRange`).

All three rest on `SearchAssumption`.  Of a listing, a query, a filter and an answer of the model:
numbers are whole or unknown, the words come from `Words`, a city is a known one, a sort is one of
`SortKey`'s, and the table is finite, with whole ids.  The catalog is finite, and its entries have
a brand, a model and a whole count.  Of what the model takes from outside: a word similarity is a
share, a distance is not negative, and the decay of freshness never grows with age.

**GuestQuotaProofs.**  The invariant says that at most one request holds the row, that its
draft is the row with its slot added, and that the committed count is the number of requests
charged to the row's window, older windows being closed for good.  `WithinLimit` is not
inductive without the exact count: `count <= Limit` says nothing of requests unless the count
is honest.  The step from "one more request" to "one more slot" uses `FiniteSetTheorems`.

**AuthSessionsProofs.**  A version says which password a pair comes from: `LoadedIsPast` (the
row a request loaded is the current version or an older one), `TokensKnown` (a pair is not
newer than the row, except that of the one password change which has answered and not yet
committed).  Then a commit makes good exactly that pair.  Assumption: `~CommitMayFail`; with
a commit that may fail after the response, the property is false (the known divergence above).  `FreshnessIsPresence` needs no such assumption:
its invariant is only that every stamp is the time of a password entry.

**ChatTurnsProofs.**  `Control` says which request holds the row: exactly one that is between
its `UPDATE` (or, for a new chat, its `INSERT`) and its end.  `Data` says what that buys: the
draft of the holder is stamped after every message that is visible or that any request was
shown, and an unfinished draft is the last thing stamped.  So a commit puts a whole turn at the
end (`TurnsStayWhole`, `TranscriptGrows`), and nothing ever lands inside a context
(`ContextIsContiguous`, with the lemma that the newest messages of a set have no hole).  None
of the three is inductive alone: that the transcript grows at its end says nothing of the
drafts still to be committed.  The row lock is essential; the ordering by `created_at` rests on
an `UPDATE` whose purpose is only to move the chat up in a list, which is what the mutant
`Locked_NoUpdate` shows.

**AccountProofs.**  The promise is about copies and tables, but what carries one account's
alerts to another is a call, so the invariant is about calls, and about the transactions they
leave to be committed.  `Honest`: what a call takes to the server, or brings back, belongs to
the account it was made for, even when its session is over.  `Current`: while its session
lasts, that account is the one shown; a load is in flight only before anybody is shown, and
only one (`OneLoad`).  Then an answer handled within its session puts the account's own lists
into its own copy, and a revert puts an alert back where it came from; handled later, or sent
under another account's cookies, it sets `strayed` if it changes anything.  A history that has
happened stays, so the invariant is "`strayed`, or the accounts are apart" (`IInv`).
`KeptApart` is `AccountsKeepApart` for any number of accounts, browsers, tabs and calls, and
`TypeCorrect` gives the types of all calls in flight.  Assumption: `LeftoversAssumption`, the
copies earlier visits left are themselves apart.

`ImportsOnce` rests on where calls and rows come from (`Provenance`, `RowsNow`): a new row holds
what its call carried, and nothing stored, kept or travelling names an alert still to be made
(`Dated`).  `Foreseen` then foresees the second row: an import
that has read the table will write only what it did not find, so a row it does not know of was
stored by a call that overlapped it, or was not committed when it read, and `overlap` says so.

**AdminUsersProofs, continued.**  `ChecksNeverDeadlock`: a check locks its rows in the order of
their ids, so in a set of waiting checks that wait for one another the next row to lock would
grow along the waits; the least of these rows has nobody to wait for.  `ImplementsLedger` proves
the refinement: only `Commit` is a step of `UserLedger` (its `Record`), and everything else,
locks, snapshots, aborts and broken deadlocks, changes neither table.  What the audit row says is
true because the row under the lock is still the one that was loaded in the columns it names.

**AssistantPanelProofs.**  `PanelInv` says of every call what it was made for, whatever the
client makes of it on its way (waiting for the refresh, sent again, settled): `Carried` is the
lemma that each step of `ApiClient` keeps the calls and what they ask.  From it: the panel is busy
exactly while a turn is open (`BusyWithOneTurn`), the reply of that turn is where `shown` says it
is (`ReplyInPlace`), every reply stands under its question (`RepliesAnswer`), and an old chat
being opened waits only as long as nothing newer was begun (`OpensLatest`, without which
`TranscriptStaysItsOwn` is not inductive: an older `GET` would replace the transcript under a
running turn).  `CallsHandledOnce` needs that a call which is not settled was never handled.
Assumption: the numbers of operations are neither `NULL` nor the numbers of older chats.

**IngestProofs.**  `IngestInv` says what is committed and what is under way: tables where every
listing has its city, entry and estimate (`TablesOK`), the rows of the file stored (`Stored`), the
counts counted (`Counted`) and the estimates estimated (`Estimated`), each of the three written
as "doing it again changes nothing".  One lemma per stage (`UpsertStores`, `RefreshCounted`,
`EstimatesStay`) shows that the stage establishes its own part, keeps the earlier ones, and is the
identity where its part already holds; they give `EstimatesStayCurrent`, `CountsStayCurrent` and
`IngestsOnce`, for every file, batch size and limit, with crashes anywhere.  That the same file
changes nothing is not inductive alone: it needs that the last committed file is still stored,
counted and estimated in `db`.  What an estimate is (`EstimateAll`) stays a symbol in
these proofs, they hold for any estimator that is a function of the rows.  A token that occurs
twice has a last row because a non-empty set of positions has a greatest (`LastRow`).

**IngestProofs, the estimator.**  The four invariants about estimates and statistics are theorems
too.  A second inductive invariant, `ListingsRead`, says that the listings are finitely many and
each is `MapRow` of some row of a file, so that every column the estimator reads has its type and
every price it believes is positive (`MarketRead`).  `SortedBy` is defined by order statistics,
the k-th value being the least that at least k listings do not exceed, and `SortedByIs`,
`SortedValues` and `SortedAlike` say what sorting gives without an induction over sequences.
`BulkAlwaysMatchesQuery`: the groups of the bulk pass without a listing are the groups of the
table without it (`LeavesOneOut`), and `BasisIs` says which group answers.
`CheaperNeverScoresWorse`: lowering a price changes only groups from which the listing takes
itself out (`RepricedBasis`), the estimate is positive (`EstimatePositive`), and rounding keeps
order (`DivMonotone`, `ScoreAntitone`).  `BandAlwaysHoldsEstimate`: the quartiles enclose the
median (`QuartilesAroundMedian`), and scaling and rounding keep them around it
(`EdgesAroundEstimate`).  `HistogramAlwaysCountsAll`: a sum over a finite set takes its members
one by one (`SumsUp`), hence disjoint parts add up (`Shares`, `SharesSum`); every price falls into
exactly one bucket (`BucketsCover`).  They assume of a file what reading it guarantees:
numbers are natural or missing and the body is a word of the vocabulary (`NumbersRead`), and a
believable price is positive.

**Only model-checked:** the liveness properties (fairness is out of the prover's reach); what
remains true of a Redis that lost its keys; `ShownIsHeld`; and `FacetsAgreeWithSearch` outside its theorem's
conditions: once a limit cuts a search, or a model asked for has listings of several brands, it is
false of some tables and true of others, the run's among them.

## 5. Not modelled

Cryptography (a signature, a hash, a keyed digest is taken to do its job), SQL text, HTTP
framing, rendering, Persian text processing, and the model behind the assistant, which is an
answer that comes or does not.  Registration and the bootstrap of the first admin, one
`INSERT ... ON CONFLICT DO NOTHING` each.  The administration page, which has one action in
flight.  `useApi.ts`.  Within one import's insert, the waits for each listing's row in turn.  The reads and the paging that
only format what is there.  `PROJECT.json` gives the reason part by part.

## 6. What could come next

1. `useApi.ts` and the re-authentication of the administration page, on `ApiClient`.
2. Registration beside the import that follows it, in `Account`.
3. Two ingests at once in `Ingest`, with the row locks that put them in order.

The transcript accepts one thing by design that no property forbids: a turn does not see
the turns in flight beside it, so two overlapping questions are each answered without the other.

## 7. Running

    tlc -workers 2 -config AdminUsers.cfg MCAdminUsers.tla
    tlapm AdminUsersProofs.tla

`PROJECT.json` maps every definition to the lines it models, names the module and
configuration of each run, and for each property the mutated definition that breaks it.
