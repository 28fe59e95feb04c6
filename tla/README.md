# Verification of social-media-api

TLA+ models of the backend in `src/`, TLC runs that check them on small
instances, and TLAPS proofs, for every value of the constants, of all safety
properties that the passing runs check. `PROJECT.json` lists the components, the runs, a mutant for
every checked property, the source lines of every definition, the hazards, the
findings and the theorems.

## The system

A Django REST API served by Daphne (ASGI), with PostgreSQL, Redis (cache, Celery
broker, channel layer) and Celery workers. Each HTTP request runs in a thread of
its own; `ATOMIC_REQUESTS` is off, so a handler is a sequence of separately
committed queries, and other requests run between any two of them. Only
`PostService.create_post` opens a transaction. WebSockets are asyncio consumers
that handle their events one after the other.

| component | state | operations | hard parts |
|---|---|---|---|
| accounts (`accounts/views.py`, `models.py`) | one `User` row each: address, password, `is_active`, `email_verified`, `is_deleted`, two tokens | register, verify, resend, forgot, reset, update password / profile / photo / online status, delete, reactivate | every handler loads the row, edits the object and saves all columns: lost updates; registration is two saves |
| sessions (simplejwt, `config/middleware.py`) | outstanding and blacklisted token rows; tokens in clients' hands | login, logout, refresh, delete account, WebSocket handshake, expiry | several queries per operation; a deletion removes blacklist rows; the handshake asks less than a request |
| onboarding mail (`notify/tasks.py`) | tasks in the broker, mailboxes | queue, send, retry, give up | early acknowledgement, crash after commit |
| interactions, notify | `Follow`, `Notification` rows, tasks | follow, unfollow, fan-out, notify, mark read | fan-out later than the post; retries after a commit; lost tasks |
| posts, comments | `Post`, `Like`, `Comment` rows | create with image, edit, delete, toggle like, comment | get-or-create races, saves after deletion |
| feed (`posts/selectors.py`) | none of its own | page by offset | changes between pages and between the queries of a page |
| chat rooms (`chat/models.py`, `views.py`) | rooms, participants, messages | open room, list rooms, send, list messages, edit, delete | three queries without a transaction; ids hashed from text |
| typing status (`chat/views.py`) | a dictionary in the process's memory | say typing, say not typing, poll | replaced, popped from and cleaned by threads without a lock |
| chat consumer (`chat/consumers.py`) | connections, channel-layer queues | connect, receive, pass on, disconnect | save, then send; bounded queues; process death |
| rate limits (`config/throttling.py`) | request times in the cache | check | read, then write; buckets shared by views |

How they interact: the views of `accounts` queue mail tasks (`Mail` in `Accounts`,
what becomes of them in `Onboarding`), decide who is active (`Sessions`), whose access tokens open
sockets (`Sockets`); posts and follows queue
notification tasks (`Notifications`) and change feeds (`Feed`); HTTP and socket
handlers write the same messages (`ChatRooms`), and sockets pass some of them on
(`ChatConsumer`); the throttles stand before every view (`Throttle`).

What makes each part correct, in a line: only a mailed link verifies an account
and each link opens its own account only; logged out tokens stay out; of the mails
that arrive the newest leads on; the right users are notified, boundedly often; toggles of
a like alternate and nothing outlives its post; a feed is read without gaps
where nothing leaves it; both users of a room can read its messages, and a
client that lists them once misses none on its socket, all in one order; limits
hold and every bucket opens again.

## Modules

One module per component. A handler that consists of several queries is a
`Begin...` action (up to and including its last read) and a `Finish...` action (its
write), or one action per query where there are more; `request[w]` is what
server thread `w` is in the middle of, `Abort` its end by an exception or with
its process. Names follow the source (`email_verification_token`,
`create_like_notification`, `total_pages`).

| module | code | notes |
|---|---|---|
| `Accounts` | handlers of `accounts/views.py` | `Load` and `Save` are the two halves of every handler. Tokens are numbered; `Draw` takes fresh ones; `NoToken` is the empty string, which every row holds before and after a reset and which a reset request may carry. `Mail` puts a link into `mailed` or loses it. |
| `AccountService` | what those handlers promise | one-step edits of the row as it is, plus `Overwrite`, which records the account as damaged. `Accounts` implements it with `account <- row, damaged <- clobbered`. |
| `Sessions` | login, logout, refresh; registration, verification, reactivation, deletion | simplejwt's tables are three sets; `blacklist()` is its two inserts, `GetOutstanding` and `FinishLogout`. Of an account row there is what it says of active and deleted; it is loaded, edited and saved, so that an overtaken save brings an older status back. |
| `AccountStatus` | the two columns that `Accounts` and `Sessions` share | a table of statuses, a copy per thread, four edits. Both modules implement it, which is how they are composed. |
| `Sockets` | `config/middleware.py`, the checks of `connect` | `Sessions` with sockets beside it: `Handshake` presents an access token once. |
| `Onboarding` | `send_verification_email`, `send_password_reset_email`, the broker and the mailboxes | extends `Accounts`, all of whose handlers take part: what they add to `mailed` becomes a task, and clients follow links that are in `mailbox`. Broker and worker failures, retries. Implements `Accounts`. |
| `Notifications` | follow, post, like, their tasks, `Notification` rows | a task is a record with its number of retries; a post is counted for (`CountFollowers`), then committed. |
| `Posts` | `posts/views.py`, `posts/services.py`, `comments/views.py` | a PUT names the fields it edits (`partial=True`) and saves all columns; `toggle_like` query by query: find, insert, get again after an IntegrityError, delete. |
| `ChatRooms` | `chat/models.py`, `chat/views.py`, `save_message` | a room id is its pair of ids and the spelling that was hashed; `Ghosts` are ids that requests name and nobody has. |
| `ChatConsumer` | `chat/consumers.py`, sending and listing in `chat/views.py` | bounded queue per connection; `loaded` is what the client listed last. |
| `Transcript` | what the sockets promise | no queues and no saving: a room's messages have one order, and each member is told a part of it in that order. `ChatConsumer` implements it with `told <- heard \o queue`. |
| `Typing` | `typing`, `get_typing` of `chat/views.py` | dictionary objects have an identity, so a thread may hold one that was replaced; timestamps are kept as ages. |
| `Feed` | `FeedView`, `PostSelector.get_user_feed` | a walk from page 1 along the `next` links; a page is three queries. |
| `Throttle` | `config/throttling.py` on `SimpleRateThrottle` | times are kept as ages, so that time can go on for ever. |

The `...Proofs` modules hold the theorems; `AccountsAndOnboardingProofs` and
`FeedAndThrottleProofs` are about two components each, so names in `Onboarding`
and `Throttle` carry a prefix (`OnboardingSpec`, `throttleVars`) where `Accounts`
and `Feed` use the plain one. `MC...`
modules hold what only TLC needs (symmetry, instances of constants). Definitions marked
`Mutant` are faulty variants of the definition below them: replacing the one
with the other makes TLC refute the property that `PROJECT.json` names, which
shows that the property depends on that part of the code.

History variables (`clicked`, `chosen`, `consumed`, `clobbered`, `loggedOut`,
`wiped`, `steady`, `confirmed`, ...) record what was answered to clients or
what overlapped; no guard reads them. `clobbered` and its likes delimit what is
promised: an object is stale when the row was saved after it was loaded, and a
property with `\ clobbered` says that nothing but the save of a stale object
breaks it. What then happens is listed below, under departures.

### What is external

Modelled from how `src/` uses it: Django's `Model.save()` (UPDATE of all columns,
INSERT if no row matched, `update_fields` as exception), unique and foreign keys,
CASCADE, `get_or_create` (get, create, get again, re-raise); simplejwt (signature,
expiry and blacklist of a presented token; `blacklist()` inserts a missing
outstanding row without a user, and then, in a query of its own, the blacklist
row, which fails if the outstanding one is gone again; refresh reads no user); Celery with its defaults
(acknowledgement when a task is taken, `max_retries`, redelivery only by retry);
channels (one event at a time per consumer; a full queue drops events); the
framework's `SimpleRateThrottle` and `check_throttles` (all throttles are asked,
refused requests are not counted).

## Runs

Sizes are distinct states; bounds are constants of the module, named in its
comment. Beside the properties each run checks the inductive invariant of the
proofs (`IInv`, `OnboardingIInv`, `ThrottleIInv`), which type correctness is a part
of.

| run | shows | bounds |
|---|---|---|
| `Accounts_race` (1.3M) | verification, reset links, passwords and soft deletion under two overlapping handlers; the invariant of the proofs; refinement of `AccountService` | 1 user, 2 threads, 2 passwords, 4 tokens: registration takes two, which leaves a resend and a reset to race |
| `Sockets_sessions` (0.8M) | token tables under overlapping login, logout, refresh, deletion and saves of the account; refinement of `AccountStatus`; inactive users open no more sockets in the end, active ones for ever | 1 user, 2 refresh tokens at a time (`Forget` returns the name of one that is of no use to anybody, so logins never run out), 2 threads, 1 socket; rows of different users meet nowhere, and the theorems are for all users |
| `Onboarding_mail` (2.2M) | mails sent, retried and lost between two overlapping handlers: only the newest link leads on; a lost mail of a pending account cannot be replaced, nor made up for by a password reset | 1 user, 2 threads, 1 password, 4 tokens, 1 retry (the code has 3; each retry repeats the same step, and the theorems are for any number) |
| `Notifications_tasks` (0.6M) | what each row says (recipient, sender, duplicates); steady followers are told or a task was lost | 3 users, one follower to start with, 2 events and posts being written together, so that a second follower can join before, while or after the post is made; 1 retry (the code has 3; one retry already duplicates) |
| `Posts_rows` (0.5M) | posts, likes and comments, query by query; each field of a post is as last confirmed | 2 users, 1 post, 2 threads, 2 likes and comments (a like, its removal and the next one, or one of each user, or a like and a comment), 1 text beside the image |
| `ChatRooms_rows` (0.2M) | listed rooms and their messages are shared by both users; deleted messages | 2 users and 1 unknown id, 2 spellings, 2 threads, 3 rooms of the ten (a pair's two spellings and one to oneself or to nobody), 2 messages |
| `ChatConsumer_order` (0.3M) | one order per room, no duplicates, nothing missed after a listing; a message reaches its audience | 2 connections, 2 rooms, queues of 2, 3 messages over sockets or HTTP: queues do overflow |
| `Feed_walk` (1.7M) | repeated and skipped posts | 5 posts, pages of 2, so three pages |
| `Throttle_limits` (0.2M) | buckets keep their rate, and each lets requests through again and again while it is asked | login and registration from one address, 2 threads, rates 1 and 2, periods of 2 and 3 ticks |
| `Typing_room` (0.6M) | who is shown as typing; KeyErrors of polls | 2 users, 2 threads, 3 dictionaries (one in place, two replaced ones held), expiry after 1 tick |

Two overlapping requests are enough for the races here: each property relates
one row's last writer to one earlier reader, and a third writer adds no new
pair. Symmetry is used on threads and users in `Accounts`, `Onboarding`, `Posts` and
`ChatRooms`, whose runs check safety only. The value that `Blank` chooses stands
for a row that is not there and is never read.

`CHECK_DEADLOCK FALSE` stands where the instance stops by itself: the bound on
tokens, ids, events or messages is used up, or all posts were created and
deleted. The others are checked for deadlock.

### Where the code departs from its documents

Two runs check a statement of a test, and TLC refutes it; quotations are in
`PROJECT.json` under `findings`.

| run | statement | what happens |
|---|---|---|
| `Notifications_follow` | the followed user is notified | `FollowUserView` passes the ids in the wrong order: the follower is |
| `Posts_toggle` | a toggle survives races | one toggle is refused by the like of a second, which a third removes before the first reads it: DoesNotExist |

Others are behaviours of the models that the exceptions in the passing properties
leave room for. No run checks them.

| where | statement | behaviour | exception |
|---|---|---|---|
| `accounts/views.py:647` | a soft deleted account is inactive (README) | a verification link that arrived before the deletion activates it | `email_verified` in `DeletedUsableOnlyByLink` |
| `accounts/views.py:458` and the other saves | a changed password is the one in the row | a request that loaded the account before the change writes the old one back | `\ clobbered` in `PasswordAsConfirmed` |
| `accounts/views.py:600` | a new account is not active yet | a stop between the two saves leaves it active | `Abort`; `Locked` in `LostMailIsFinal` |
| `accounts/views.py:699` | - | a forgotten-password request that loads the account between the two saves of its registration and saves after them makes it active again | `LockedOut` asks that no handler in flight holds such a copy |
| `accounts/views.py:720` | - | the empty reset token, which every row holds that asked for no reset, is accepted: whoever knows the address sets a password | `Reset` in `AccountService` asks for no token; `ResetLinkSpent` is about tokens of links |
| `accounts/views.py:549` | logout blacklists (README) | deleting the account removes the blacklist rows with the outstanding ones | `\ wiped` in `LoggedOutStaysBlacklisted` |
| `accounts/views.py:817` | - | a logout that overlaps the deletion puts back a row that has no user, blacklisted or, if it stops between its two inserts, not; or it fails, as the row it found is gone | `WipedRowsReturnOwnerless` in `IInv`, `Orphaned` |
| `accounts/views.py:800` | - | any authenticated user may log out any refresh token | `BeginLogout` |
| `posts/services.py:24` | - | a first follower who arrives between the count and the commit is not told of the post | `steady` in `SteadyFollowersTold` |
| `accounts/views.py:656` | resend is public (README) | it requires an active account; a pending one whose mail was lost is stuck | `LostMailIsFinal` states it |
| `posts/views.py:146`, `chat/views.py:158` | what was deleted is gone | an overlapping edit inserts it again | `FinishUpdate`, `FinishEdit`; `NothingOutlivesItsPost` holds even so |
| `chat/views.py:117` | one room per pair of users (README) | another spelling of an id gives another room | the spelling in `RoomId` |
| `config/throttling.py:45` | addresses share an account's login bucket | the address is part of the key | `GetCacheKey` |
| `config/middleware.py:41` | a token is validated "the same way SimpleJWT validates HTTP requests" (`config/middleware.py:16`) | `is_active` is not asked, so a deactivated user opens sockets until his tokens expire | `InactiveOpensNoMore` says that it ends |
| `config/throttling.py:21` | - | a throttle counts requests that another one refuses: two registrations fill `burst`, then each login is refused by `burst` or by `login` in turn and counted by the other, for ever | `BucketsReopen` is about each bucket by itself |
| `chat/views.py:78` | - | a message sent over HTTP reaches no socket; its reader has to list again | `via # Http` in `NothingMissedOnceListed` |
| `chat/models.py:20` | - | opening a room with an unknown id leaves a room without participants | `JoinGhost` |
| `chat/views.py:140` | - | overlapping polls raise KeyError; overlapping typing calls lose each other's update | `overtaken` in `PollsFailOnlyRaced`, `disturbed` in `ShownAsSaid` |

Two more are visible in the code and outside the models: neither mailed link
expires although the mails say so (`notify/tasks.py:78` and `:105`), and the
`last_message` of a listed room (`chat/views.py:28`) is its oldest, as messages are
ordered by `created_at`.

## Fairness

Liveness is only claimed where the code's scheduling gives it. `Sockets`: time
passes, so tokens expire; no client is assumed to do anything. `Onboarding` and
`Accounts` claim safety only: whether a mail arrives, and whether its link is
followed before it is replaced, is up to others. `Notifications`:
workers keep taking tasks; nothing is assumed about their success, hence the
disjunct `e \in lost`. `ChatConsumer`: a running consumer finishes its handler
and empties its queue. `Throttle`: time passes, clients may ask as often as they
like. `Typing`: time passes and a thread goes on with its request; polls are not
assumed, since `SilenceIsShown` speaks of answers only.

## Proofs

TLAPS checks, without any unproved step, theorems about all twelve components,
in eight modules. Each component has
an inductive invariant (defined at the end of its module, checked
by its run), a lemma per action or kind of step that keeps it, and a theorem per
property that follows. Users, threads, posts, rooms, texts and the bounds are
arbitrary; what else is assumed of the constants stands in the last column.

| module | proved beside type correctness | assumed |
|---|---|---|
| `AccountsAndOnboardingProofs` | `VerifiedByLink`, `PasswordAsConfirmed`, `ResetLinkSpent`, `DeletedUsableOnlyByLink`, `LinksOpenOwnAccount`; `Accounts` implements `AccountService`, and `AccountStatus` | the token bound is a natural number, there is an address and a password |
| | of `Onboarding` `NewestLinkOnly`, the action property `LostMailIsFinal`; it implements `Accounts`, so all of it holds there too | the number of retries is a natural number |
| `SessionsProofs` | `LoggedOutStaysBlacklisted`, `BlacklistHangsTogether`, the action property `NoAccessAfterLogout`; `Sessions` implements `AccountStatus`; `Sockets` implements `Sessions`, so all of it holds beside sockets, where the run checks it | `NoUser` is not a user |
| `PostsProofs` | `NothingOutlivesItsPost`, `PostAsConfirmed`, `TogglesAlternate`, `FailuresHaveReason` | the id bound is a natural number, there is a user and a text |
| `ChatRoomsProofs` | `ConversationsAreShared`, the action property `DeletedStaysDeleted` | unknown ids are nobody's, the server's own spelling is a spelling |
| `ChatConsumerProofs` | `HeardInOrder`, `NothingMissedOnceListed`; `ChatConsumer` implements `Transcript` | `Participants` gives a set of users for each room; `NoRoom` and `Http` are told apart from rooms and connections |
| `NotificationsProofs` | `NotificationsAccounted` | bounds are natural numbers, nobody follows himself to start with (the view refuses it) |
| `FeedAndThrottleProofs` | `NoRepeats`, `NothingSkipped` | the reader is an author, pages are not empty |
| | of `Throttle` `LimitKept` | a request has a sequence of throttles, rates are natural numbers and periods positive ones (the framework's are a second or more) |
| `TypingProofs` | `ShownAsSaid`, `PollsFailOnlyRaced` | finitely many threads, and more objects than threads: an object stands for an identity, and a process never runs out of those |

Why the properties are not inductive by themselves, and what is added:

* Accounts: a save writes what an earlier load put into `request`, so the
  invariant has to say what copies in flight may hold. `FreshIsEdit` says that an
  object no save has overtaken is an edit of the row as it is now (so its save
  keeps what no stale save broke, and is a step of the service);
  `DrawnIsPrivate` that a drawn token is known to its handler alone;
  `MailedStaysHome` that a mailed token is only found in copies of its owner's
  row, stale ones included; `PresentedWasMailed` (of tokens that are not empty) and `ConsumedWasMailed` that
  tokens used were mailed; `VerifiedCopies` and `DeletedUsableCopies` that no copy
  claims a verification that no link brought about, or makes a deleted account
  usable. The step proof shows each of these kept by loads (one lemma per
  `Begin...` action for what it loads), saves, registration and aborts.
* Sessions: `OnlyIssuedTokens`, that the tables hold issued tokens only;
  `HeldRowsExist`, that the row which a logout has found and not yet blacklisted is
  there, as a deletion that takes it turns the logout into an orphan, so that no
  blacklist row is left without its outstanding one; `WipedRowsReturnOwnerless`,
  that what comes back after a deletion has no user; and `StatusesHaveRows`, that who has a status or a copy has a row: a registration
  that met an old status would not be the one of `AccountStatus`.
* `AccountStatus`: a step of `Sessions` maps by its copy, tokens being nobody's
  concern there; a step of `Accounts` maps by what `FreshIsEdit` says its edit
  does to the two columns. So the two models cannot disagree on when a row is
  written, by what copy and with which status; that a deletion also presents an
  access token is a matter of `Sessions` alone.
* Onboarding: `TokensInOrder`, that no mailed link is newer than the row's
  token of its kind, for which what a handler is about to mail has to be newer
  than all before it (`DrawnIsNewest`), unless a save has overtaken it;
  `MailsWereQueued`, that tasks and mailboxes hold links which were handed over,
  one task each. It rests on the invariant of `Accounts`, as its steps are steps of
  `Accounts` beside those of the workers. `LostMailIsFinal` is an action property:
  that nobody holds a usable copy is kept because copies are made of the row.
* Posts: four layers, each using those before it. Rows: an id given out later
  is above the cutoff that a deletion leaves (`CutoffsPast`). Confirmed fields:
  `FreshIsEdit` again, field by field. Likes: `OneLikeEach` (unique_together) and
  `DropsOwnLike`, that a toggle which is about to delete holds its own pair's
  like. Toggles: `OverlapsTangled`, that two toggles of one pair on their way are
  recorded as overlapping, and `ToggleInStep`, which says for a toggle that
  overlaps nothing at which of its queries the like is there.
* ChatRooms: `NoneOrBoth`, that the participants of a room are none or its two
  users, and `RequestsSound`, what a request between two of its queries has made
  sure of already (its room has a row or both participants, and is its user's).
* ChatConsumer: a message that a consumer has saved and not yet sent is the
  latest it saved, in the room it is in (`PendingIsLatest`), was posted nowhere and
  is on its way to nobody (`PendingIsUnsent`), so that sending it keeps the order;
  a closed connection has nothing left (`ClosedIsEmpty`). For the refinement, a
  step that sends posts one message and tells it to members only, and no other
  step tells anybody anything.
* Notifications: `FromEvent`, that tasks and rows say of their event what such a
  task says, and `FanOutsSound`, that a fan-out on its way has only followers
  left to tell (type correctness alone is not inductive, as such a task looks up
  its event), and `FollowersCounted`, that the history `since` has them all. The bound on duplicates
  takes `QueuedOnce`, that a user whom a fan-out has yet to queue has no task and
  no row of its event, and a queued one has one task; and `RowPerAttempt`, that a
  task which is at its n-th retry has left at most n rows.
* Feed: where posts stand. What was shown is before the next page
  (`ShownBefore`) unless something came in, what was there all along is listed
  (`SteadyListed`) and, if not shown, not before the next page (`RestAfter`)
  unless something went, and the count is not exceeded (`CountHolds`) unless
  something came in after it. A step of the database moves posts one way or the
  other: `NewerMonotone` says which.
* Throttle: an entry is an age, and the cut takes the entries from the first that
  is too old. Since a list is newest first (`ListsNewestFirst`), that is those
  within the period, in the cache as in the history of what was let through; so
  the two stay equal for a key that was never raced for (`CacheCounts`), also
  while one check has read and not yet written (`ReadsCurrent`). Two checks that
  read before either writes are recorded (`OverlapsRaced`). The cut is defined by
  the position it is made at, not by recursion, which is what makes this provable.
* Typing: entries, and copies that no call overtook, are as old as what was said
  (`EntriesAgree`, `CopiesAgree`); a stop that no call overtook holds the
  dictionary in place (`StopsReachCurrent`); what a poll found expired stays too
  old to be shown (`ExpiredStayOld`), which is why it does no harm that polls
  delete from whichever object they hold. That a new dictionary really is one
  that nobody holds is a pigeonhole argument (`UnusedExists`).

Proved and in no run of their own: `LinksOpenOwnAccount`, which is about accounts
that exchange addresses, where `Accounts_race` has one account; and
`BlacklistHangsTogether`, which is a part of the `IInv` that `Sockets_sessions` checks. `AccountStatus` is a property of that run;
that `Accounts` implements it is proved only.

Only model-checked is all liveness: `SteadyFollowersTold`,
`HeardByAudience`, `InactiveOpensNoMore`, `BucketsReopen` and `SilenceIsShown` need
fairness and ENABLED, which are out of the prover's reach.

## Not modelled

`accounts/views.py:479` (`EmailVerificationView` has no route);
`config/cache_utils.py` (`CacheService` is called by nothing and its handlers are
not connected, although the README speaks of caching); `moderation` and `images`
(queued or routed by nothing); `accounts/services.py` and
`interactions/services.py` (used by no view); file upload in chat; the routes of
`django_rest_passwordreset`; the admin site; views that only read; the WebSocket for
notifications that the repository's README mentions, for which there is no
route. `ChatMessageThrottle` is attached to no view. Posts of moderated users do
not arise, since nothing sets `Post.is_active`. User rows are never removed by the
API, so a foreign key to a user fails only where a request names an unknown id
(`Ghosts` in `ChatRooms`; the other handlers look the user up first).

Abstractions: passwords and addresses are model values, validation is a guard or
an `Abort`; the profile's other columns change nothing the properties see; a
message, comment or mail is its id; `Typing` is one room and one process (each
process has a dictionary of its own); `Sockets` does not repeat what a socket does
once it is open; a verification token and a reset token are
drawn from one sequence (uuid4 values and 64-character random strings never
coincide); a mail task carries its link, and the address it is sent to is that of
the link; two spellings of a pair of ids are told apart in `ChatRooms` by which one
is the server's own, not by which of the two ids is misspelt; `send_welcome_email`
carries no link.

Finite names: what the program has no end of is a finite set in the models, and
`Forget` in `Sessions` gives the name of a token back that is expired, has no access
token and is not being logged out; the rows that the program would keep of it
change nothing any more. `drafts` in `Notifications` counts towards `MaxEvents`, one
draft per author.

## Plan

1. Done: `Accounts` with `AccountService` and its proofs, `Sessions` with `Sockets`
   and their proofs, `Onboarding`, `Notifications`, `Posts`, `ChatRooms`,
   `ChatConsumer` with `Transcript`, `Typing`, `Feed`, `Throttle`.
2. Done: the proofs of all of them, and `AccountStatus`, which `Accounts` and
   `Sessions` share; `Onboarding` implements `Accounts`.
3. Left: a like set that `Posts` implements where toggles do not overlap; a
   notion of time in `Sessions` finer than expired or not.
