# A TLA+ verification of the Pulse backend

Pulse is a social-network backend in C++: HTTP handlers and two WebSocket hubs on
Drogon, state in MongoDB and Redis, several processes behind a load balancer.  This
directory holds TLA+ modules translated from that code, the TLC configurations that
check them on small instances, and proofs of the central theorems for every instance.
File names below are relative to the repository (`src/services/...`, `include/pulse/...`).

Everything interesting in this program happens *between* processes.  A handler runs to
its end on one worker thread without yielding, but each access it makes to MongoDB or
Redis is a separate atomic command, and the handlers of other workers, other processes,
timers and sockets run between two of them.  There are no multi-document transactions
(one exception: referral rewards).  So the modules have one grain in common: **one
action is one command sent to MongoDB, Redis or an external service**, with the local
computation around it.  What a handler has read before is kept in its own record
(a function from handlers to records such as `gReq`, `kReq`, `oReq`) with the step it is
at (`pc`), and may be stale when it is used.  A call that is refused at its first read
changes nothing and has no action.

## 1. Inventory

| Component | State it keeps | Operations | Interacts through |
|---|---|---|---|
| Sessions and access-token check (`auth_service.cc`, `auth_filters.cc`, `jwt_service.cc`, `models/session.cc`) | `sessions`, `users.isActive`, Redis `auth_user:<id>`, `revoked_token:<hash>` | login, refresh, check of a request, logout, password change, delete, ban, unban, cleanup | every HTTP request and socket runs the check; the administrator's controller writes the same collections |
| Sign-up and accounts (`auth_service.cc`, `auth_controller.cc`, `models/user.cc`) | `users`: identifiers, login methods, username | code, verified identifier, provider, username, deletion | codes before, sessions after |
| One-time codes (`custom_otp_service.cc`, `models/otp.cc`) | `otps`, Redis `otp_rate_limit:*`, `sms_budget:*` | send, resend, activate, verify, purge | called by the sign-in flows; Brevo and Twilio outside |
| Presence (`presence_service.cc`, both hubs in `sockets/`) | Redis `presence:<id>`, `presence:count:<id>`; in memory `conns_`, `userConnCount_` | connect, user_online, re-check, close | two hubs and all processes share the keys |
| Chat, groups (`chat_controller.cc`, `group_controller.cc`, `models/conversation.cc`, `models/message.cc`) | `conversations`, `messages` | open, send, read, react, delete, page; members and roles | realtime hub |
| Realtime messaging (`realtime_controller.cc`) | rooms in memory, Redis publish/subscribe | join, leave, send, seen, react, broadcast | chat, groups, calls |
| Calls (`call_controller.cc`, `livekit_service.cc`) | Redis `call:<id>` | initiate, token, end, relayed signals | conversation members, LiveKit outside |
| Notifications and push (`models/notification.cc`, `push_service.cc`) | `notifications`, `users.fcmTokens` | create, mark, delete; register, send, remove dead tokens | all social components |
| Snaps (`snap_controller.cc`, `models/snap.cc`) | `snaps`, media | create, view, react, delete, rail and inbox | follow graph |
| Job scheduler (`jobs/scheduler.cc`) | queue, pending set, threads; Redis `job_lock:<name>` | start, timers, run, stop | four jobs of other components |
| Roulette (`roulette_controller.cc`, `models/roulette.cc`) | `roulettes` | join, poll, decide, leave | writes `follows` |
| Follow graph and profile counters (`user_controller.cc`, `models/follow.cc`, `post_controller.cc`) | `follows`, `users.stats`, `users.blockedUsers`, `posts` | toggle a follow, block, create and delete a post, delete the account, look at one's profile | feed caches |
| Likes and bookmarks (`models/like.cc`, `bookmark_controller.cc`) | `likes`, `bookmarks`, counters in `posts`, `reels` | toggle | notifications |
| Posts and comments (`post_controller.cc`, `models/post.cc`, `models/comment.cc`) | `posts`, `comments`, counters | create, edit, delete, comment, open, list, search | follow graph, notices |
| Reels and engagement (`reel_controller.cc`, `models/userengagement.cc`) | `reels`, `userengagements` | view, like, comment, share, weekly decay | feeds |
| Feeds (`feed_service.cc`, `reel_controller.cc`) | Redis pools, followed lists | home, following, nearby, for you, trending, reels | posts, follows, vectors |
| Chain stories (`chain_controller.cc`, `models/chainstory.cc`) | `chainstories`, `chainlikes` | submit, vote, like | - |
| Pulse score, social DNA (`models/pulsescore.cc`, `models/socialdna.cc`) | one document per user | record, recompute, weekly snapshot, twins | posts, scheduler |
| Alter ego (`alter_ego_controller.cc`, `models/alterego.cc`) | `alteregos` | settings, training, answers, patterns, guesses | language models outside |
| What ranking learns (`models/userbehavior.cc`, `feedback_service.cc`, `user_vector_service.cc`, `trust_service.cc`) | `userbehaviors`, Redis vectors, velocity, trust | like, unlike, page | feeds |
| Whispers (`models/whisper.cc`, `whisper_controller.cc`) | `whispers`: voters, tallies, version, reporters | vote, report, hide | location queries |
| Pulse drops (`models/pulsedrop.cc`) | `pulsedrops`: participants and three counters; response posts | join, respond, close | posts |
| Referrals (`referral_controller.cc`) | `users`: code, referrer, count, badges | get a code, use one | the only transaction |
| Request filters (`rate_limit_filters.cc`, `socket_rate_limit.cc`) | Redis windows, buckets in memory | count a request, take a token | every request and event |
| Ranking kernels, uploads, GIF and link previews, mail, Firebase, configuration, database helpers | none, or caches and pools | scoring, proxying, conversion | everything |

Behaviours that are hard to get right here, and which properties answer them:

* **Handlers interleave between two commands.**  Two refreshes of one token
  (`RefreshOnce`), guesses of a code (`CodesHold`), sign-ins with one identifier
  (`SignupsHold`), an opening and a closing socket (`ShownOnline`, `CountsBounded`), joins
  of a queue (`PairsHold`), decisions written back from a stale read (`OutcomeHonest`),
  votes (`BallotSpec`, `ChainWhole`), two conversations of one pair (`DirectHolds`),
  registrations of one device and views of one snap (`RecipientsHonest`), recounts stored
  in another order (`DriftHeals`, `CountersSettle`, `DnaSettles`).
* **Checks on a document that has changed by the time of the write.**  The rights of a
  group's administrator (`RightsNow`, `RolesHold`), parties of a call (`OnlyPartiesJoin`),
  deletion of a post by two requests (`PostsHonest`), whole documents replaced under a
  version (`ScoresWhole`, `ChainWhole`) or under none (`LearningHeals`).
* **Late writes.**  A refresh that rotates a session after a logout (`KilledStayDead`),
  a cache fill that lands after the ban (`BanTakesEffect`, `BanEventuallyHolds`) or after
  a post was hidden (`PagesHonest`), a status poll that revives an ended roulette session
  (`PairsHold`).
* **Failing and lost commands, dying processes.**  Redis is optional for most reads; a
  reply may be lost although the command ran (`CountsBounded`, `CodesHold`, `GhostsFade`,
  `RunsSpaced`); a subscriber may be away (`ExactlyOnce`).  Counters kept beside what they
  count drift when a handler dies between the two (`HiddenWhenReported`, `DropsSettle`,
  `DriftHeals`, `CountersSettle`).
* **Expiry and clocks.**  Keys and documents with a lifetime that must be as long as what
  they stand for (`LogoutRevokes`, `SerialExact`, `RunsSpaced`), cached answers that must
  not outlive their time (`PagesHonest`, `LearningHeals`), a wall clock that is set
  (`LimitsHold`), pages that go on from a time (`PagesHonest`, `DirectHolds`).
* **Threads.**  A mutex, a condition variable and a flag set without the mutex
  (`StopEnds`, `OneWorkerPerJob`).

`PROJECT.json` lists every hazard at its line, with the properties that cover it.

## 2. Modules

| Module | What it models |
|---|---|
| `AuthSession` | sessions, tokens, the access-token check, the handlers that end sessions |
| `SessionLedger` | abstract: what the session store promises about refresh tokens |
| `AuthSessionProofs` | theorems about `AuthSession`, and about `Otp` and `Signup` as `AccountsMC` puts them beside it |
| `Otp` | one-time codes |
| `Signup` | how accounts come to be, are named and deleted |
| `AuthSessionMC`, `OtpMC`, `AccountsMC` | instances for TLC; `AccountsMC` puts the three side by side |
| `Presence`, `PresenceMC`, `PresenceProofs` | presence keys, socket registries, the re-check; theorems |
| `Scheduler`, `SchedulerMC`, `SchedulerProofs` | background jobs, and theorems about them |
| `Community` | constants of the small components below |
| `Whispers`, `Ballot` | one whisper; what voting promises (abstract) |
| `PulseDrops` | one pulse drop: joining, responding, its end |
| `Referrals` | allocating and using referral codes |
| `SocialGraph` | follows, posts, blocks and the counters of the user documents |
| `Limits` | request windows and socket buckets |
| `CommunityMC` | one instance of each of these for TLC |
| `CommunityProofs` | theorems about `Whispers`, `PulseDrops`, `Referrals`, `SocialGraph` and `Limits`, as `CommunityMC` runs them |
| `Conversation` | a group: members, roles, unread counts, its deletion |
| `Realtime`, `RealtimeProofs` | the sockets of its members on several processes; EXTENDS `Conversation`; theorems about all that `MessagingMC` runs |
| `Calls`, `Notices`, `Push`, `Snaps` | what else reaches a user |
| `Direct` | conversations of two, replies, and pages of messages and conversations |
| `MessagingMC` | `Realtime` and an instance of each of these for TLC |
| `Toggles`, `Posts`, `Engagement`, `Chains`, `Scores`, `Dna`, `AlterEgo`, `Taste`, `Feeds` | what users make and what is made of it |
| `Roulette` | roulette; the run `RoulettePaired` takes it as it is |
| `ContentMC` | one instance of each of these and of `Roulette` for TLC |
| `ContentProofs` | theorems about `Roulette` and `Posts`, as `ContentMC` runs them |
| `ReactionProofs` | theorems about `Toggles`, `Engagement` and `Feeds`, as `ContentMC` runs them |
| `DocumentProofs` | theorems about `Scores`, `Chains` and `Dna`, as `ContentMC` runs them |

Mutant operators (marked `Mutant:` in the modules) are not part of the models: each is
a definition as a plausible bug would leave it, and shows that a property notices.

### AuthSession

`sessions` is the collection; a document is identified by the refresh token it was created
with (`id`) and holds the hash of its current one (`ref`) and of its access token.  An
access token carries a user and a second and *no* token id
(`JwtService::generateAccessToken`), so two logins within one second yield the same token,
and the model keeps that.  `cache` and `revoked` are the two Redis keys.  The handlers:

* `BeginLogin`/`BeginAdminLogin`, `LoginDeactivate`, `LoginInsert`: `createUserSession`,
  with the user read before it.
* `BeginRefresh`, `RefreshRotate`/`RefreshRefused`: `refreshAccessToken`; the rotation is
  one `find_one_and_update` whose predicate is `Matches`.
* `BeginRequest`, `CheckCached`, `FetchActive`, `FillCache`, `CheckSession`:
  `validateAccessToken` with `CacheService::getOrSet`.  Any failing Redis read lets the
  request go on, as the `catch` clauses do; a failing MongoDB read counts as inactive.
  The single flight is per process: a request may fetch by itself (another process) or
  take the value of a flight under way.  The second alternative lets the joiner go on
  from the moment the value is fetched, a little earlier than the promise is set; that
  adds behaviours and hides none.
* `Serve`, and the handlers behind the filter: logout (sessions of the device the client
  names, then the revocation), password change, deletion; the administrator's ban and
  unban.
* `Tick`, `CacheExpire`, `CleanupExpired` (TTL index and the cleanup job) and `Abort`: a
  handler that throws, or whose process dies, at any step.

History variables: `redeemed` counts successful rotations of each token, `dead` collects
the sessions an operation ended when it completed, `barred` and `loggedOut` record what
had completed when a request began (`late`, `out`).

`SessionLedger` forgets users, clocks, caches and handlers: a login opens a chain, the
last token of an open chain can be redeemed once for the next, a closed chain stays
closed.  `LedgerSpec` is that specification under the mapping in `AuthSession`.

### Signup

`sUsers` is the collection with its two unique indexes (login methods and username);
`sCodes` holds the identifiers for which a right code is about.  `Initiate`/`SendCode`
and `Verify`/`VerifyCode` are the two halves of a sign-in by code, `FederatedLogin` and
`ProviderAnswers` the one by provider; both go on to `FindAgain`, `Insert` (which the
index may refuse), or `Match`, `Push`, `FillShortcut`, the three commands by which an
account found is given the identifier it was found by, and `Reload`.  An account without
a name gets a temporary token and asks for `CreateUsername`, `Available`, `SetName`.
`SetStatus` and `DeleteAccount` come between any two, and a handler may die.
`SignupsHold` says that an identifier and a name have one owner, that nobody is told he
has a name another has, that only named accounts are signed in, and that a deletion frees
what the account held unless a sign-in that had found it was on its way; that exception
is what the code does.

### Otp

A code is a number; its digits are the number, so a user who types a code he received
guesses exactly it, and 0 is any wrong guess.  `BeginSend` ... `Supersede` follow
`sendSMSOTP`/`sendEmailOTP`: daily budget, send limit, insertion, provider, activation
(the code gets `deliveredAt`), retirement of the other delivered codes, or `Rollback`.
The provider may accept, refuse, or accept with its answer lost; each database step may
fail, before or after it took effect.  `BeginVerify` ... `ClearLimit` follow `verifyOTP`.
`Purge` is the TTL index.  A resend to an e-mail address is one more send; one to a
telephone is refused and changes nothing.

`NewestUsable` says that whoever retires a code leaves a usable one, with two exceptions
that the code has against its own comments:

* Two answers may fall in one millisecond.  Each of the two activations then retires the
  other's code (`$lte`), where the comment above the `update_many` (165-166) promises "a
  deterministic winner": the run `OtpTie` shows it, with the property `TieHasWinner`.
* The `update_many` may take effect with its reply lost (the second disjunct of
  `Supersede`).  `sendSMSOTP` then deletes its own code and leaves none usable, where the
  comment in `createOtpDoc` (127-129) says "This lets a failed or concurrent send leave the
  previous code usable".  `unseen` notes the codes whose send ended so.

### Presence

One user, his sockets and the two Redis keys, counted in re-check intervals.  `Connect`,
`Incr`, `ExpireCount`, `SetKey`, `TellOnline` are a socket's opening; `Close`, `Decr`,
`DelCount`, `DelKey`/`Keep`, `TellOffline`, `Forget` its closing, in the order each hub
does them (the presence hub drops the socket from its registry first, the realtime hub
last).  `CheckSocket`, `CheckSet`, `CheckExpire` are the re-check thread, which may touch
a user whose socket closed after the snapshot.  A command may fail before or after it
ran; a process may crash.  `count` can become negative as Redis' counter can.

### Scheduler

Each process has an event loop (`loop`), a queue, a pending set and workers.  `mutex` is
only visible where a worker holds it from one step to the next: between testing the
wait's predicate and blocking (`TestQueue`, `Wait`), which is where a lost wake-up could
happen.  `requestStop` is three steps because the flag is set before the mutex is taken.
`AcquireLock` is `SET NX EX`, with a failure before or after it ran.  A tick is the
60 seconds the lock's lifetime is shorter than the interval.

### Roulette

The collection in the order of insertion, the unique index `uniq_active_roulette_user`
(`Fits`), and each request as its sequence of commands.  `findMatch` is one
`find_one_and_update` that may fail with a duplicate key (`JoinClaims`, `Recover`);
`recordDecision` reads the document, changes its copy and writes the whole array back
(`RecordReads`, `RecordWrites`); every update but the claim names the document by `_id`
alone, so it also changes documents that ended in the meantime.

### Whispers, PulseDrops, Referrals, SocialGraph, Limits

* `Whispers`: `ReadWhisper` copies the voters and the version, `WriteVote` is the
  conditional update that asks for that version, `Conflict` reads again up to the bound
  (8 in the code).  The tallies are counted from the voters that are written.
  `FindReported`, `CountReport` and `Hide` are the three commands of `report`.  `Ballot`
  is the abstract specification: whole votes one after the other, none after the close.
  Its mapping takes the stored voters and tallies as they are and "not hidden and not
  expired" for `open`; there is nothing to hide, because all that a vote does takes
  effect in its one conditional update.
* `PulseDrops`: `Add`, `FirstResponse`, `Replace` and `Current` are the commands of
  `pulsedrop::join`, in order; `InsertPost` and `Undo` stand around them in
  `createResponse`; the drop expires by its time, and `ExpireDrop` and `Close` store it.
* `Referrals`: `Assign` is one candidate against the unique index.  `ReadAccounts`,
  `Claim`, `Reward` and `Commit` are the transaction of `applyCode`; MongoDB's part of it
  (snapshot, write conflicts, restart, commit at once) is `Writes`, `Behind`, `Released`
  and marked external.  The two updates of one document inside the transaction are one
  step, because nothing outside can tell them apart.
* `SocialGraph`: toggling a follow deletes or inserts and then stores two recounts;
  blocking deletes follows and stores none; a post is inserted or ended and then counted;
  deleting an account ends posts and follows without a recount.  `ReadStats` ... `Repair`
  is the profile request that compares and repairs.
* `Limits`: `Request` is the Lua script of the fixed window with the client's address as
  `ClientIp` takes it from the forwarded chain; a client may write addresses of his own at
  the head of the chain.  `Event` is a socket's bucket, refilled by a wall clock that may
  be set.  `LimitsHold`: no client spends another's window, nobody is refused without
  cause, and neither lets more through than it allows.

### Conversation, Realtime

One group and the HTTP handlers that change it; then the sockets of its members.  The
handlers of the group controller are pairs of a read and an update with its own filter
(`AddFind`/`AddUpdate`, `RemoveFind`/`RemoveUpdate`, ...), followed by a system message
(`Announce`); a deletion wipes the messages and then drops the group.  `Update` says what
all of them share: an update that finds nothing ends the handler.

A request names users by strings, and an id in upper case is a valid other spelling of the
same id (`isValidOid`, `tryOid`).  The database compares ids, the pre-checks compare
strings: `odd` are the users a request spells otherwise than the store.  So a member may
be added again, with his unread count under a key that nobody reads (`oddAdds`), and the
creator may be demoted (`oddDemotes`), although `group_controller.cc:895` refuses with
"Cannot remove creator as admin"; he cannot be removed, because the filter of that update
asks again.  `participants` is a set; the creator invited under another spelling stands in
the array twice.  `RolesHold` relates members, administrators, creator and unread counts,
with these two exceptions and no other; `RightsNow` is an action property: whoever changes
the members has the right at the moment of the *write*.  In `Realtime` a socket's handler
reads membership and works on (`SendFind`, `InsertMessage`, `Summarise`, `Broadcast`),
rooms are per process, and a broadcast is delivered at home and published;
`OnRedisRoomMessage` is the subscriber of another process, which may lose its connection
and the frames published meanwhile.  `ExactlyOnce`: nobody receives a message twice, and a
socket that stays in the room receives it unless its process was deaf.

### Calls, Notices, Push, Snaps, Direct

* `Calls`: the call's state in Redis for two minutes (`InitiateFind`, `InitiateStore`,
  `Expire`), tokens (`TokenLoad`, `TokenMint`), its end and the relayed signals, while
  members come and go.  `OnlyPartiesJoin` is an action property about new tokens and
  frames.  Of the relayed frames the comment at `realtime_controller.cc:1412` says "We do
  not authorize against the conversation here"; the code does (1456-1458), and the
  property holds of the code.
* `Notices`: `CreateFind` looks for a notice of the last minute and `CreateInsert`
  makes one.  `Push`: a registration takes the token from other users, drops the device
  and pushes to the front of a capped list; a send walks the list it read and removes the
  tokens the provider calls invalid, which may be any of them: `INVALID_ARGUMENT` and
  `NOT_FOUND` also answer a request that is wrong in another way.  So no promise is made
  that a live token stays; `TokensOwned` is about whose list a token may be in: his who
  registered it last, or one whose own registration was under way when that one began
  (`pClaims`).  `Snaps`: views with the capped list of viewers, reactions, deletion of media
  and document, rail and inbox with the follow graph.  `sTwice` counts the views begun
  beside another of the same user, or after he had dropped out of the list; the counter
  exceeds the viewers by no more.  `sBroken` says that a deletion broke off between
  media and document.
* `Direct`: `OpenFind` and `CreateConversation` are `getOrCreateConversation`; a message
  is `SendFind`, `StoreMessage`, `Preview`, `Summary`; `dScroll` is one client that pages
  through messages by the time of the oldest one it holds, `dList` one that pages through
  conversations by number.  That list holds groups too (`Listed`): messages in them and
  joining move a group to the top (`GroupMessage`, `JoinGroup`), leaving and deletion take
  it out (`QuitGroup`).  What stood next behind the last page (`FirstBehind`) then slips
  into the pages already shown and is missed: `NoneUnlisted` excepts that one and no
  other.

### Toggles, Posts, Engagement

* `Toggles`: `LikeDelete`/`LikeInsert`, the recount and the counter stored after it; a
  bookmark and the saves of its reel as two commands.
* `Posts`: every handler reads a post with the reader's follows and decides by `CanView`;
  the writes follow.  `oAnswer` is the last answer, judged against `oWas`, the posts the
  reader might have seen at some time since his request began.  `PopulateReplies` reads
  a thread level by level through the lists of replies, as deep as `MaxDepth`;
  `SettledThread` is what the comments themselves say they reply to, where the handlers
  of all of them have ended.
* `Engagement`: signals of a viewer (`AddSignal`), the affinity computed from the
  returned document and stored by a later command (`SetAffinity`), the weekly decay.

### Chains, Scores, Dna, AlterEgo, Taste

* `Chains`, `Scores`: load, change, replace under the version, retry.  The histories
  (`kVoted`, `xDone`) hold what was answered, and the stored document must agree.
  A vote equal to the voter's last one is looked for before the loop of `voteOnSegment`,
  not in it: two that overlap both count, where the comment at `chain_controller.cc:644`
  says "Identical retries must not count as additional votes"; `VotesOnce` says that only
  such ones do.  `LikeInsert` has the path where the insert took effect and its reply was
  lost: the entry found is taken for another's (731-735) and the like is never counted
  (`kOdd`).  In `Scores`, `recordAction` and `recalculate` look at the clock three times
  (`day`, `clock`, `entry` in `Replay`).  A midnight between the first two, `todayStr` and
  `yesterdayStr`, breaks a streak that is whole; `xSplit` holds those days, and
  `ScoresWhole` allows the break there and nowhere else.
* `Dna`: raw signals are incremented; the shares are recounted from a copy and stored
  only if its total is still the stored one, up to eight times.  `FindTwins` and `TopUp`
  are the two queries of `findTwins`.
* `AlterEgo`: settings, training, answers with their log, learnt patterns and guesses,
  each written with or from what was read; the providers may fail one after another.
* `Taste`: the behaviour document that is replaced whole, the user's vector, the velocity
  of an item and the trust of an author in Redis, each with its lifetime.  A vector is
  the set of items that shaped it; weights are not kept.  `findByUser` answers a failed
  read like a missing document, so `getOrCreate` begins a default one, which replaces all
  that was learnt (`FindBehavior`); `bSeen` holds what was learnt with no other handler
  under way and no such reading since.

### Feeds

`Plan` says which caches a kind of page is made from; `Load`, `Fetch`, `Store` are
`getOrSet` with the single flight of a process.  The order a ranking gives is any order;
only the feed by date has its own.  `PagesFresh`: no page shows an item longer after it
was hidden, or its author left, than the caches it is made from may live.
`WalkComplete`: who turns the pages of the feed by date sees no post twice, and the cursor
passes over none that stays, with these exceptions: posts of the very millisecond of one he
was shown; posts of authors whom the cached graph of some page lacked (`hWalk.blind`); and,
when the walk is told that it is at its end, what lies behind a find that broke off
(`FollowingFails`, `hWalk.cut`): `runPostFind` keeps what it has read until then and
`getFollowingFeed` answers 200 with `hasMore` false.

## 3. Runs

| Run | Instance | Properties |
|---|---|---|
| `AuthSessions` | three parts. Sessions: 1 user, 1 device, 2 workers, up to 3 refresh tokens, clock 0..1, Redis failing. Codes: 1 number, 2 workers, 2 codes, 2 guesses once both are there, clock 1..3 from the first code on. Sign-ups: 1 identifier, 2 names, 2 accounts, 7 calls | `TypeOK`, `RefreshOnce`, `KilledStayDead`, `LogoutRevokes`, `LedgerSpec`; `CodesHold`, `ObsoleteStaysDead`; `SignupsHold` |
| `AuthBan` | 1 user, 2 workers, Redis failing, fair | `BanEventuallyHolds` |
| `AuthBanRace` | 1 user, 2 devices, 3 workers, no failures | violation of `BanTakesEffect` |
| `OtpTie` | 1 number, 2 workers, 2 codes, clock 1..2 | violation of `TieHasWinner` |
| `Presence` | 2 sockets, 1 process, 2 hubs, cap 1, 1 failure or crash, fair | `CountsBounded`, `SerialExact`, `GhostsFade`, `ShownAgain` |
| `PresenceRace` | 2 sockets, 1 process, cap 2, no failures | violation of `ShownOnline` |
| `Scheduler` | 2 processes with 2 and 1 workers, 1 job, interval of 3 ticks, 1 failure or crash, fair | `OneWorkerPerJob`, `RunsSpaced`, `StopEnds`, `JobsKeepRunning` |
| `SchedulerInterval` | as `Scheduler`, no failures | violation of `OncePerInterval` |
| `RoulettePaired` | 2 users, 2 handlers, fair | violation of `WaitingPaired` |
| `Community` | six parts: whisper, drop, referral, graph, requests, events. 2 users, 2 workers; 2 attempts, 2 votes, 2 reports hide; 2 response posts and 3 calls; 2 codes; 1 post and 2 changes or crashes in the graph, fair; 2 clients behind a proxy, 4 requests or events | `AllTypesOK`, `BallotSpec`, `HiddenWhenReported`, `DropsSettle`, `ReferralsSettle`, `DriftHeals`, `LimitsHold` |
| `Messaging` | eight parts: groups, rooms, mixed, calls, notices, pushes, snaps, direct. 3 users, 2 sockets on 2 processes, 1 followed message, 3 calls of the group controller, 3 events; 1 call, 2 changes of membership and 3 signals; 3 notices; 3 pushes, a cap of 1 device; 4 requests on a snap with a cap of 1 viewer; 3 conversations and 1 group in the reader's list, 3 messages, pages of 1, 2 calls | `AllTypesOK`, `RolesHold`, `RightsNow`, `ExactlyOnce`, `OnlyPartiesJoin`, `RecipientsHonest`, `DirectHolds` |
| `Content` | twelve parts: toggles, posts, thread, reels, chains, scores, dna, roulette, ego, taste, walk, pages. 2 handlers, 2 or 3 users and items each, 2 to 4 calls, 1 to 4 days or weeks | `CountersSettle`, `PostsHonest`, `ChainWhole`, `ScoresWhole`, `DnaSettles`, `LearningHeals`, `PagesHonest`, `PairsHold`, `OutcomeHonest` |

**Parts.**  Components that share no state are checked in one run: the initial state
chooses one of them, the others stand still, and the state spaces add up instead of
multiplying.  A property of one component is only interesting in its own part; where it
would be dear to evaluate elsewhere it says so (`part = "posts" => ...`).  Parts of one
component (`groups`, `rooms` and `mixed`; `walk` and `pages`) put the bound where the
question is: many calls of the group controller with no socket connected; many events
of sockets in a group nobody changes; and one of each against the other (`mixed`, which
leaves out the other spellings of ids that `groups` has).  A part starts
where its component can be: a group as `CreateGroup` and `PromoteUpdate` leave it, posts as
`CreatePost` does, caches empty or filled from the collections.  The `thread` part has three
comments, all in one name, under a post that is there already and has one comment: with
two levels of replies read, a reply to a reply is found and a reply to that is not.

**Why the bounds are enough.**  Every race named above is between two handlers (or one
handler and the environment), so two workers show it; three are used where a third must
stand beside them (`AuthBanRace`: a login, a request and the ban).  Two codes, two
documents and two chained rotations are the least that let a newer one stand against an
older.  Lists that are cut to a cap have a cap of one, retries a bound of two: the limit
is reached.  The bounds on clocks, tokens, calls and failures are the constants whose
names begin with `Max`; a bound stops an operation from *starting*, never a handler half
way, with these exceptions, marked in the modules: counters of `Otp` and histories of
`Feeds` and `Taste` that stop one above the largest value that changes an answer.
`AuthSessions`, `Community`, `Messaging` and `Content` switch the deadlock check off
because at their bounds nothing can be started any more; `AuthBan`, `Presence` and
`Scheduler` check it.  Two changes are enough for the counters of the graph to drift in
every way there is (two toggles that overlap; a block or a deleted account after a
follow; a crash between a post and its count), with any number of profile requests
beside them.

**Fairness.**  `AuthSession`: a worker finishes the handler it runs (every driver call has
a timeout) and Redis expires a key that is not rewritten.  Nothing is assumed of clients,
failures, or of which alternative a failing command takes.  `Scheduler`: threads of a live
process run on, the event loop fires due timers, time passes.  `Presence`: handlers and
re-check run on, time passes.  `RoulettePaired` also lets users ask again and again
(strong fairness on joining), which only makes its counterexample stronger.
`SocialGraph`: a worker finishes its handler, and a user looks at his own profile again
and again (the application asks for it at every start); without that nothing repairs a
counter, and `DriftHeals` says no more than that it is repaired by looking.  The other
components are checked for safety alone.  Where something must be put right in time
(`LearningHeals`, `PagesHonest`, `PairsHold`) the property counts ticks in a history
variable and bounds them by the lifetimes of the keys.

**What the violations mean.**

* `BanTakesEffect`: the comment in `updateUserStatus` promises that a ban takes effect
  at once.  A login that read the user before the ban inserts its session after it, and
  a cache fill begun before the ban writes "active" after the key was deleted; the next
  request passes both checks.  `BanEventuallyHolds` shows that this ends: the key
  expires, and the filter then reads the user.
* `TieHasWinner`: two codes are activated with one `deliveredAt` before either send comes
  to its `update_many`; each of the two then retires the other.  `NewestUsable`, within
  `CodesHold`, shows that nothing but such a tie and a lost reply leaves the user without.
* `ShownOnline`: DECR and the two DELs are three commands; an opening socket fits
  between them.  `ShownAgain` shows that the re-check repairs it.
* `OncePerInterval`: the lock lives a minute less than the interval.  `RunsSpaced` is
  what does hold.
* `WaitingPaired`: the joins of two users overlap, neither sees the other's session, both
  wait and can never claim each other, because the claim would put the claimer into a
  second active document.

**What the properties had to leave out.**  Some properties carry an exception because the
code has the race it names, and they show that nothing beyond it goes wrong: two
conversations of one pair, or two notices, if both were created at once (`DirectHolds`,
`RecipientsHonest`); an identifier given back to an account that was deleted meanwhile
(`SignupsHold`); counters wrong after overlapping toggles until the next one
(`CountersSettle`); a view that counts again if another of the viewer's was under way
(`RecipientsHonest`), and a token with one whose registration overlapped the last; posts
and messages of the same millisecond at the edge of a page (`PagesHonest`, `DirectHolds`).

Others follow from the code whatever the order of its steps, and each is bounded by the
property in the same way: codes tied in one millisecond and a lost reply to the retiring
update (`CodesHold`); a creator demoted and members added under another spelling of their
ids (`RolesHold`); the conversation that slips up when a group leaves the list
(`DirectHolds`); the author a page's cached graph lacked, and what lies behind a find that
failed (`PagesHonest`); equal votes that overlap, and a like whose insert got no answer
(`ChainWhole`); a midnight between two looks at the clock (`ScoresWhole`); a failed read
taken for a missing document (`LearningHeals`).  Where one of these is at odds with a
comment of the repository, the next paragraph or the module's part of section 2 quotes it.

**At odds with a comment or a message, and without a run of its own**, because the
property of the part states the exception and holds with it:

* A lost reply to the retiring update leaves no usable code (`CodesHold`), against
  `custom_otp_service.cc:127-129`, "This lets a failed or concurrent send leave the previous
  code usable".
* The creator can be demoted under another spelling of his id (`RolesHold`), against
  `group_controller.cc:895`, "Cannot remove creator as admin".
* Equal votes that overlap both count (`ChainWhole`), against `chain_controller.cc:644`,
  "Identical retries must not count as additional votes".
* Relayed call frames *are* authorised against the conversation (`OnlyPartiesJoin`), against
  `realtime_controller.cc:1412`, "We do not authorize against the conversation here".
* A resend to a telephone always fails.  `auth_controller.cc:598` offers "POST
  /api/v1/auth/resend-otp - Resend OTP code" and 416 demands 'Method must be either "email"
  or "phone"'; `AuthService::resendOTP` (1091) passes that word on as the type, and
  `custom_otp::resendOTP` (837-842) knows "email" and "sms" only: "Invalid OTP type".  No
  state changes, so `Otp` has no action for it.

**Met while modelling** and kept in the models, but contradicting no statement of the
repository: whoever opens a conversation with himself gets any direct conversation of his,
because `$all: [x, x]` holds of all of them (`OpenFind`); the createdAt a client is sent
with a message is taken before the stored one; an address that a provider vouches for is
not lower-cased as a typed one is; a username is called available although a deactivated
account holds it (`Available`); the lock after failed passwords and `recordView` are never
called; the search of conversations compares names of groups only.


## 4. Proofs

`AuthSessionProofs` proves, for all users, devices, workers, lifetimes and bounds, from
`ConstAssumption` alone:

* `TypeCorrect`: `Spec => []TypeOK`.  The invariant `TypeInv` adds what each handler's
  record has filled in at each step (`CallOK`): without it the step that inserts a
  session could insert one without a device.
* `RedeemedOnce`: `Spec => []RefreshOnce`.  The inductive invariant `TokenInv` says that
  a token number is held by at most one session (`HeldOnce`), that a token a handler has
  minted and not yet stored is nobody else's and unspent (`FreshInFlight`,
  `UnmintedUnspent`), and that a token held by a session is unspent.  A rotation then
  spends a token whose count is 0 and stores a fresh one in its place.
* `NoRevival`: `Spec => []KilledStayDead`.  `DeadInv` adds that dead sessions were
  minted (so a later insert cannot reuse their identity) and that the sessions an
  operation has noted at its start are inactive once its update has run (`SnapInv`);
  the latter is why the update before the end of the operation suffices.
* `LogoutLasts`: `Spec => []LogoutRevokes`.  `OutInv` compares three times: no token and
  no handler carries a second later than the clock's, so a key stored now with the
  lifetime of a token outlives every token of that user and second (`KeysLast`); a
  request that begins while the signature is valid then finds the key.
* `ImplementsLedger`: `Spec => LedgerSpec`.  `IssueInv` connects tokens held by sessions
  with tokens handed to clients; every step is then `Open`, `Redeem`, `Close` or a
  stutter of `SessionLedger` under the mapping.

The proofs use one lemma per kind of step (a handler moves, ends, one document changes)
and one per action that does more.

The same module goes on with the instance `O` of `Otp` that `AccountsMC` runs beside the
sessions.  From `O!OtpAssumption` (which TLC evaluates there), for any identifiers, workers,
limits, lifetimes and bounds, it proves the parts of `CodesHold` and of the action property
of the accounts run:

* `GuessesLimited`: `O!Spec => []GuessesBounded`.  `GuessesCounted` adds, for each code, the
  comparisons made and those on their way: together they are no more than the attempts
  counted, because `Reserve` counts one before it hands out the code (`Reserved`) and
  `Compare` turns one on its way into one made (`Spent`).
* `OneLogin`: `O!Spec => []OneLoginPerCode`.  A code has let in one user if it is marked
  verified and none otherwise (`LoginsCounted`); the update that marks it asks that it is
  not.
* `ObsoleteDead`: `O!Spec => ObsoleteStaysDead`.  `SafeInv` says what a sending worker
  knows: the code is its own (`OneSender`), and the codes it found completely sent are
  settled, of the same identifier and delivered no later than its own (`WorkerOK`).  When
  it retires, all of these are deleted, verified or retired (`ObsoleteGone`), and stay so,
  because only the sender of a code could activate it again and a settled code has none.
* `NewestStaysUsable`: `O!Spec => []NewestUsable`.  In `NewInv` every retired code has an
  heir (`Heirs`): a code of its identifier, delivered no earlier, that is either usable,
  settled, not retired and stored until it expires, or excepted, tied with another or
  retired by a send that did not hear of it.  A send that retires the heir is delivered no
  earlier and is the heir from then on; if it was itself retired meanwhile, by one that
  finished first, its own heir is; and if the two share an instant, the exception covers
  them both.
* `CodesTyped`: `O!Spec => []TypeOK`.

It ends with the run as a whole:

* `CodesHeld`: `MCSpec => []CodesHold`, and `ObsoleteHeld`: `MCSpec => ObsoleteStaysDead`,
  which carry these theorems over (see "Composition" below).
* `SignupsHeld`: `MCSpec => []SignupsHold`, from `SignupBounds` (what a deletion writes in
  place of a name is nobody's name).  `SignupInv` has three parts.  `AccountOK`: an
  account that is not deleted has one identifier, in both places, and the name it was
  told; a deleted one has its tombstone, and an identifier only if a sign-in raced with
  the deletion.  `Indexed`: what the two unique indexes say.  `HandlerKnows`: a handler
  that has found or inserted an account knows an identifier of it, unless the account was
  deleted since, in which case the deletion has noted the race.  So adding the method to a
  live account changes nothing, and adding it to a deleted one is the excepted case.

`PresenceProofs` proves, from `PresenceAssumption`, for any sockets, processes, caps,
lifetimes and failures:

* `CountsHeld`: `Spec => []CountsBounded`.  `Counted` says at every step, not only at rest:
  the count is at most the sockets that will still count themselves down plus `leaked`;
  and without a mishap it is below 0 only while a handler stands before the deletion that
  the floor of `removeConnection` ends in.
* `SerialHeld`: `Spec => []SerialExact`.  The property speaks of moments of rest, so the
  invariant `Exact` must speak of all others: at most one socket is busy (`Serial`), the
  keys outlive the time to the next re-check of every socket that is done with the last
  one (`Fresh`), and `Phase` says for each step what the one handler under way has seen
  and not yet done.  It needs that the presence key lives no longer than the count
  (`kPresenceTtl`, `kCountTtl` in `src/services/presence_service.cc`, 90 and 360 seconds),
  which is a conjunct of `PresenceAssumption`.

`CommunityProofs` proves about the components that `CommunityMC` puts together, from their
assumptions:

* `ImplementsBallot`: `Spec => BallotSpec`.  The inductive invariant `IInv` says that a
  handler about to write has read the votes as they are now, or its version is older than
  the stored one (`Current`): versions only grow, and only with the votes.  So the write
  that passes its condition votes on the present ballot.
* `ReportsHide`: `Spec => []HiddenWhenReported`, for a threshold above zero.  The property
  is inductive beside `IInv`: the handler whose report reaches the threshold is the one
  that goes on to hide.
* `DropsSettled`: `MCSpec => []DropsSettle`.  `DropsInv` says what a handler knows of the
  list (`HandlerOK`): who comes to write a first response has joined, who comes to replace
  one has one, or the drop is over by then, because list and end only grow.  A positional
  update then changes the element of that user, there being one only (`FirstWritten`,
  `Rewritten`).  And every active response is on the list, was replaced, is in a handler's
  hands or was a dead handler's (`Covered`).
* `ReferralsSettled`: `MCSpec => []ReferralsSettle`.  A transaction reads from a snapshot,
  gives up where a document has changed since, and holds what it has written until its
  end.  `TransactionOK` says what that leaves of the snapshot: documents nobody has
  changed behind it are as read, and what it is about to commit is the present document
  with its own change.  With `HeldByWriter` (who holds a document is past writing it) a
  commit counts one referral of the referrer as he is now.  `CodesApart` is the unique
  index, and a code shown is stored.
* `LimitsKept`: `MCSpec => []LimitsHold`.  `WindowOK` divides the requests let in that are
  still young into those of the present window and those of earlier ones, and bounds both:
  at the moment a window opens all others together are at most one full window.
  `BucketInv`: since any event let through, the events since and the tokens there are
  add up to no more than the burst and the rate times what the bucket's own time has gone
  on, and that time never goes back.
* `CommunityTypesKept`: `MCSpec => []AllTypesOK`, from `GraphBounds` and `AccountsFinite`
  (there are finitely many accounts) too.  Whispers and the follow graph need a word about
  handlers.  `WhispersTyped`: who reports is a user, so the reporters stay a finite set and
  the count is their number, also between the write that adds one and the one that counts.
  `GraphTyped`: a handler in the middle of a follow, a block or a recount carries the two
  users it will write to, one that deletes a post carries the post, and a post's author
  is a user.

`SchedulerProofs` proves, from `SchedulerAssumption`, for any number of processes,
workers and jobs and any interval:

* `OneHand`: `Spec => []OneWorkerPerJob`.  That a job in a worker's hands is in
  `g_pending` and not in `g_queue` would be enough, were it not for `requestStop`, which
  empties `g_pending` under the workers.  `Handed` therefore has two halves.  `Queues`:
  what is queued is pending and queued once, and a process that no longer takes jobs has
  an empty queue.  `Hands`: two workers never hold one job (`Apart`), a job in hand is
  pending and not queued *while the process is not stopped* (`InHand`), and a process that
  is off, and so may start again, has no workers left (`AllGone`).  From `requestStop` on
  nothing is queued, so nothing is handed out, until the hands are empty.
* `RunsApart`: `Spec => []RunsSpaced`.  Beside the property the invariant `Spaced` says
  that what is left of a job's lock and what has passed since its last run add up to at
  least the interval less one tick; a run can only begin when the lock is gone.  A crash,
  a restart or a reply that is lost leaves both as they are.

`RealtimeProofs` proves, from `CreatorAssumption` and `RealtimeAssumption` (a socket has a
user and a process), for any users, sockets, processes, handlers and bounds:

* `RolesKept`: `Spec => []RolesHold`.  `GroupInv` adds what a handler about to write
  carries (`HandlerOK`): who leaves takes out himself and is not the creator, and who
  comes to demote the creator has spelled him otherwise.  Members and administrators may
  change under every handler; that the creator stays a member is what the filter of the
  removal asks again.
* `RightsKept`: `Spec => RightsNow`.  Every step of the group controller is an `Entry`,
  `Exit`, `Rise`, `Fall`, `Founding` or `Ending`, or leaves the members alone, and entries
  and exits name the administrator of that moment.
* `DeliveredOnce`: `Spec => []ExactlyOnce`.  In `WayInv` a message belongs to one handler
  from its insertion to its broadcast (`OneSender`), and until then nothing of it has gone
  out (`NewUntouched`), so a broadcast finds every queue without it.  A queue then holds it
  once (`QueuedOnce`) and for no socket that has it (`NotTwice`), and whoever it is owed to
  has it or is about to (`Reached`).  A lost subscription empties a queue and the debts
  with it; joining the room later creates none.

The same module proves about `Direct`, the instance `D` of `MessagingMC`, for any number
of users, conversations, messages and handlers and any size of a page (`TalkBounds`, that
is `DirectAssumption`):

* `PagesMissNothing`: `D!Spec => []D!DirectHolds`, and `DirectHeld`: `MCSpec =>
  []DirectHolds`, where the messaging run begins with three conversations that have
  messages (`TalkingSound`).  `PairsInv` is about handlers as well as conversations: two
  of one pair, a conversation and a handler about to create it, or two such handlers exist
  only after creations of that pair overlapped.  `ScrollInv` says where a message is that
  is due and was not shown: deleted, of the time of one shown, or still below the cursor
  (`Ahead`).  `ListInv` counts: a conversation that is due, has neither moved nor slipped
  and was not shown has at least `page * PageSize` others above it (`Below`).  Messages
  and groups joined can only make these more.  A group that leaves takes one from
  everything below it, and of those only the first behind the last page (`FirstBehind`)
  had none to spare, which is the one that slips.  `NewestFull` and `LeastIn` say what
  sorting, limit and the cursor return.

And about the other instances of `MessagingMC`, from `NoticeBounds`, `PushBounds`,
`SnapBounds` and `CallBounds` (the assumptions of `Notices`, `Push`, `Snaps` and `Calls`):

* `RecipientsHeld`: `MCSpec => []RecipientsHonest`, from three invariants.  `NoticesInv`:
  handlers that make a notice each have an identifier of their own that nothing is stored
  under, and one that no like notice has overlapped is alone at making it and finds none
  (`MakersAlone`).  `PushInv`: whoever has a token, or is about to be given it, is among
  its claimants, and a registration that takes it from everybody else leaves as claimants
  only its own user and those about to be given it (`TokensApart`); sends only take away.
  `SnapsInv`: the views counted are no fewer than those who have viewed it, and with the
  views under way no more than these and the overlaps (`SnapViews`), whoever a snap is
  open to, or is about to react, has had access (`SnapOpen`, `SnapCallers`), and a snap
  without media is about to go (`SnapMedia`).
* `PartiesJoin`: `MCSpec => OnlyPartiesJoin`.  `CallsInv` says what a handler knows: one
  that has found a call knows its two parties and is of one of them, one about to store a
  call is alone with its number, and whoever is a member now has been one since some
  moment of every request under way.  A call that expires and is stored again has the same
  parties.
* `MessagingTypesKept`: `MCSpec => []AllTypesOK`, from `PartBounds` (at least one call and
  two events) too.  Most of it lies in the invariants above; `SocketsTyped` adds that a
  handler of a socket runs while the socket is up, and carries the message it is about.

The lists of devices need an induction.  The library's induction theorems take an
operator, which the provers cannot instantiate; `SetInduction` and `CountInduction` take a
*set* instead (of finite sets, of numbers) that contains the first element and is closed
under the step, and are proved from the library's facts.  With these, and with filters
written as recursive functions, `KeptHolds` says what a filtered list of devices holds.

`ContentProofs` proves, from `RouletteBounds` and `StartBounds` (what `ContentMC` may begin
with), for any users, handlers and bounds:

* `PairsHeld`: `MCSpec => []PairsHold`.  One active document per user is the unique index
  over `dec`, which holds across an insert, a claim and a status that goes back to active
  (`OneDoc`, `Fits`).  `DocOK` says of a stored document what each status means: one that
  pairs two users is on its way out; a waiting one has one user, no outcome and so
  may be claimed; "connect" stands only where that user chose it.
* `OutcomesHeld`: `MCSpec => []OutcomeHonest`.  `recordDecision` writes the whole array of
  users back from an earlier read, so `AskerKnows` says what of that read still holds: the
  two members are as read unless one has left meanwhile (`alone`), the asker's own choice
  is in it, and no "connect" in it was not chosen.  The decision of the other one may be
  lost; a follow that neither asked for cannot come of it.
* `PostsHeld`: `MCSpec => []PostsHonest`, from `PostBounds` too.  `PostsInv` says what a
  handler knows by the step it is at: of the post it has read, that the author and the
  anonymity are still those read (`PosterKnows`); of what it will answer, that its reader
  might see it at some moment of the request, unless the follow graph has moved
  (`ReaderKnows`); of a new comment, that it is stored under the post it counts
  (`CommenterKnows`).  The counts of posts and comments need no more than that one handler
  moves at a time (`CreatingMoves`, `DeletingMoves`, `UncountedMoves`).  For the thread,
  `Answering`: a reply is in the list of the comment it answers, or the handler that will
  enter it there is still under way.  So every chain of settled replies is a chain of
  lists (`SettledFound`), lists only grow, and what a reader could have found when he
  began he still finds (`ThreadsRead`).

`ReactionProofs` proves about other instances of `ContentMC`, from `ToggleBounds`,
`ViewBounds` and `FeedBounds` (the assumptions of `Toggles`, `Engagement` and `Feeds`; the
last says that readers and authors are people, that the items are finitely many and reels
among them, and that a page holds something), for any users, handlers and bounds:

* `CountersHeld`: `MCSpec => []CountersSettle`.  In `ToggleInv`, a toggle nothing has
  overlapped is the only one under way and its recount is that of the likes as they are
  (`Unlapped`); and a reel's saves, with the handlers about to add one, are no
  fewer than its bookmarks with the handlers about to take one away (`SavesAhead`), until a
  handler breaks off.  In `EngageInv`, a writer of an affinity nothing has overlapped, be it
  a handler or the weekly job, is the only one, and what it has read still holds
  (`OneWriter`, `ReadOf`); comments are those stored less those still to be counted
  (`Counting`); and the average watched is exact because adding to a weighted mean is,
  which is arithmetic over quotients that the provers do only in small steps.
* `PagesHeld`: `MCSpec => []PagesHonest`.  The history `hGone` says how long ago an item
  was last public, last shared, and an author last followed.  `FeedInv` adds up two
  clocks: what a cache holds was true so long ago that, with the life the cache has left,
  it comes to no more than the lifetime and two ticks (`CacheOK`: one for the life that
  begins with a full tick, one for a fetch that reads in one tick and stores in the next).
  So what a handler takes out of a cache, or is handed by the one it waits for, is no
  older than the lifetime and a tick (`Recent`), and who waits does so for a handler that
  fills the same cache (`WaitOK`); without that, a waiter could be handed another reader's
  authors.  For the walk (`WalkOK`): nothing shown lies before the cursor, and what is due
  to the reader (`Due`: owed, alone in its instant, of an author no page's graph lacked)
  has been shown or lies before the cursor, which is the earliest instant on the page
  (`CursorAt`); and it has been shown when the walk is over, unless its last find broke
  off.  `TurnHolds` proves this of a page once for both ways a find may end.

`DocumentProofs` proves about documents that are read, worked on and written back if the
version is still the one read, from `ScoreBounds`, `ChainBounds` and `DnaBounds` (the
assumptions of `Scores`, `Chains` and `Dna`; the vibes are the five of the code, whose
even shares add up to a hundred):

* `ScoresHeld`: `MCSpec => []ScoresWhole`.  A pulse score is read, brought up to date in
  memory and written back if nobody has written since.  `DaysKept` says what a document
  knows of a set of days: how many, the last, and the run of days that ends on it
  (`RunEnds`).  The stored document knows all the days there were.  `JobKnows` says that a
  handler's copy knows some days, and which of them midnight split, and all there were and
  its own if the version it has read is still the stored one.  So the write that passes
  its condition stores all of them, and one that fails is tried again from a fresh read.
  The history stays in order because a handler never works on a day later than the present
  one.
* `ChainsHeld`: `MCSpec => []ChainWhole`.  `WholeDoc` says of a stored chain what no
  writer may break: pending segments and the story are apart, a segment is in the story
  once, has an author once it is submitted, and its votes are the sum of its ballot.
  `WriterOK` says what a handler knows: the document it is about to write is the stored
  one if the versions agree, so that what it writes is one change of what is there; and
  two handlers never submit one segment (`ChainsApart`).  `VotesCore` says that a ballot
  holds its voter's last vote, and that a handler about to vote has read a chain on which
  that user's last vote, if any, was another one.  Likes are counted outside the version:
  the counter and the likes still to be counted agree with the ledger as long as no two
  toggles of one user overlapped, none broke off and no reply was lost (`LikesCore`).
* `SharesHeld`: `MCSpec => []DnaSettles`.  `WholeDna`: the total is the sum of the
  signals, and shares and snapshots each add up to a hundred, because the largest share
  takes what rounding leaves (`Strands`).  `SoulOK`: the shares of a user are those of his
  signals, or a handler has still to store or repeat a recount, or one has given up; a
  recount carries signals no newer than the stored ones, and the same ones if the total is
  the same (`CounterOK`), since signals are only added.

The votes of a chain, the signals of a user and the extremes of a page are folds over
finite sets.  `SumExists` shows that such a fold has a value, `SumAdds` that it does not
depend on the order, and `TotalChanges` what a change of one summand does to it.  They
rest on `SetInduction` and `CountInduction`, which are proved here as in `RealtimeProofs`.

**Composition.**  `AccountsMC`, `CommunityMC` and `MessagingMC` run several components
that share no variable; a step of the whole is a step of one of them, possibly restricted
to keep the state space small, or leaves it as it is.  So `MCSpec` implies the
specification of each, and its theorem holds of the run.  The proofs are about the
instances themselves.  The assumptions of a component become assumptions on the constants
of the run, which TLC evaluates.  `ContentMC` also begins in the middle of things, two
users already chatting; `RouletteStarts` shows that such a start satisfies the invariant,
whatever the number of sessions before it.

**Model-checked only.**  The properties of `AlterEgo` and `Taste` in `ContentMC`
(`LearningHeals`); the action properties that no theorem above names; and all liveness
properties (`BanEventuallyHolds`, `GhostsFade`, `ShownAgain`, `StopEnds`,
`JobsKeepRunning`, `DriftHeals`, `WaitingPaired`), because fairness and ENABLED are out of
the prover's reach.  No module uses a RECURSIVE operator.

## 5. Not modelled, and why

* **Ranking kernels, vectors, trust formulas**: functions of floating-point numbers and
  text with no state.  Where they steer something, the model leaves their result open:
  any order of a page (`Feeds`), any verdict of a scorer.  When a vector or a score is
  computed, cached, dropped or missed *is* modelled (`Taste`, `Feeds`).
* **Uploads, GIF search, link previews, mail, Firebase, LiveKit, language models**:
  requests to remote services.  Their callers are modelled with what such a service may
  answer: accept, refuse, fail, or be obeyed and its answer lost.
* **Infrastructure**: connection pools, index creation, conversion between BSON and
  JSON, settings.  Unique indexes, TTL indexes and conditional updates are part of the
  actions that meet them.
* **bcrypt**: vendored.
* **Inside components that are modelled in part**: profile edits and the cached lists of
  followers; listings, searches and statistics that read only; creation of a chain, of a
  drop from a viral post, of a reply to a whisper; `expireOld` of drops, which nothing
  calls; deletion of a reel; negative feedback; the relay of signals and the rate limits
  inside the realtime hub (the relay as such is in `Calls`, the buckets in `Limits`);
  preferences of notifications; the administrator's moderation of content, which is one
  delete by id.

Every hazard listed in `PROJECT.json` has a property of a modelled part.

## 6. What would come next

More proofs rather than more modules: `LearningHeals`, the one safety property of the runs
that no theorem states.  Its half about `Taste` counts likes against the vectors that have
learned from them; its half about `AlterEgo` needs that a stable sort of a list by its
counts exists, and sums over sequences.
