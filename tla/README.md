# BlockRemote backend: TLA+ models and proofs

BlockRemote is a FastAPI service against remote-access fraud on mobile devices.
Devices send heartbeats; a Celery worker scores them; a device that behaves like
one under remote control is locked: its sessions are revoked and a message goes
out over a WebSocket "kill-switch". Access is paid for, billed by webhook.

This directory models the parts whose correctness depends on the order of
things: what other coroutines, processes, Redis and Postgres may do at each
`await`. TLC checks the models on small instances; TLAPS proves the main safety
properties for every value of the constants.

Source paths are relative to the repository's `app/`.

## 1. Inventory

State lives in four places: Postgres rows, Redis keys (most with a TTL), the
memory of one server process, and tokens held by clients. Handlers are
coroutines: code between two awaits is atomic in a process, and any other handler
may run, or the process end, at an await.

| Component | State | Operations | Talks to |
|---|---|---|---|
| **Sessions** `services/tokens.py`, `api/v1/auth.py` | `refresh:{user}:{device}:{jti}:{fp}`, `refresh_attempts:{device}`, `device:{device}:state`, `revoked:device:{device}`, `force_overlay:{device}` | `issue_tokens`, `refresh_tokens`, `revoke_device_tokens`, `revoke_and_block`, logout | called by heartbeat, EDR, worker; publishes on `kill-switch` |
| **Verification** `core/auth.py`, `core/security.py` | none (tokens) | `verify_token`, `get_current_claims` | reads the revocation flags |
| **JWKS cache and endpoint** `core/security.py`, `api/internal/jwks.py` | in each process: key set and time of its fetch; the file `core/jwks.json` or `JWT_PUBLIC_KEY` | fetch, key lookup; `GET /internal/jwks` | every process asks the API process at `JWKS_URL` |
| **Kill-switch** `services/kill_switch.py`, `api/v1/security.py` | the hub's connections, `listener_task`, `stop_event`; `ws:conn:{ip}:{device}` | admit, register, unregister, broadcast, relay, handler and its `finally` | Redis pub/sub; clients |
| **Priority socket** `api/v1/security_priority.py` | `ws:priority:{ip}:{device}` | admit, receive, publish an alarm | `kill-switch`, `force_overlay` |
| **Billing** `api/v1/billing.py` | tables `billingevent`, `subscription`; hash `sub:{user}:{device}` | webhook, GET subscription, status | provider; guard reads the hash |
| **Access** `services/access.py` | table `deviceregistration` | register device, paywall and trial | attestation, guard, sockets |
| **Attestation** `services/attestation.py` | none | verify a verdict with Google or Apple | external services |
| **Subscription guard** `core/subscription.py` | `rl:{tier}:{user}:{device}` | admit or refuse a request | flags, hash, paywall |
| **Heartbeat** `api/v1/signals.py` | table `signal`, list `sig:{device}` | ingest, breach, enqueue the analysis | worker, sessions |
| **Worker** `workers/celery_app.py` | queue `celery`, `baseline:{device}`, `decision:{device}`, runtime samples, audit rows | analyse, shed, lock | sessions, `kill-switch` |
| **Trust score** `services/trust.py` | none | score | worker, gRPC |
| **EDR** `services/threat.py`, `api/v1/edr.py` | audit rows | score a report, lock | sessions, `kill-switch` |
| **gRPC** `grpc_server.py` | `hb:{user}:{device}`, never read | admit, score a signal | paywall, `device:{device}:state` |
| **Audit endpoint**, configuration, models, schemas, migrations | rows | one query; declarations | |

What is hard about each, and what would make it correct:

- **Sessions.** Rotation is TTL, then DEL, then SET in separate round trips, and
  a sweep is a SCAN over many. Correct: a spent or swept token never comes back;
  a revocation outlives every access token it concerns; a refusal as "reuse" has
  a cause.
- **Kill-switch.** A handler starts the relay task, another one stops it and
  waits, others arrive in between. Correct: the stop event always has somebody
  who will clear it; a lock reaches every open socket of its device although
  clients fail, connect late or leave; a leaving handler comes back.
- **Billing.** The provider repeats events, deliveries overlap, a handler dies
  between commit and cache. Correct: an acknowledged event was applied once; the
  cache shows only what was committed, differs from the row for known causes only and
  does not stay stale; nobody waits for ever.
- **Access and guard.** First requests of a device race for one registration row;
  rate windows are INCR and EXPIRE; the tier comes from a cache that may be empty.
- **Sockets and gRPC.** They do not pass the guard and have checks of their own, in
  another order. Correct: the connection rate holds in each window and a refusal by
  it ends; a lock that is there when a device comes in is met.
- **Heartbeat and worker.** The analysis is enqueued after the answer; two workers
  read and write one baseline; breakers drop jobs while the system is slow; the
  audit row is committed before the revocation. Correct: what was acknowledged is
  dealt with; a baseline is of some set of scores, all its fields of the same; an
  open breaker sheds, and does not leave a device unscored for good; no lock by a
  score or a report lacks its audit row.
- **Scores.** Clamps, floors and thresholds must agree with each other. Correct:
  evidence never lowers a threat, steadiness never locks, outliers may.
- **JWKS.** A cached key set is stale while keys rotate. Correct: a withdrawn key
  ends, and a new one is known, within a bound.

`PROJECT.json` lists every such hazard at its line, with the properties that
watch over it.

## 2. How the project is put together

| Module | Stands for | Takes from the others |
|---|---|---|
| `Sessions`, abstract `CredentialLifecycle` | token store and revocation | |
| `KillSwitch` | hub, relay task, sockets | publishers: sessions, worker, EDR, priority socket |
| `Billing` | webhook, table, hash, readers | |
| `Access` | guard, registration, trial, rate windows | flags of `Sessions`, row and hash of `Billing` |
| `Entrances` | admission to the two sockets and to gRPC | any verdict of `Access`, flags of `Sessions`; goes on in `KillSwitch` and `Trust` |
| `Jwks` | verification keys | |
| `Enforcement` | heartbeat, queue, workers, EDR report | `revoke_and_block` of `Sessions` in three steps, messages of `KillSwitch`, any score and any risk |
| `Trust` | score, baseline, threshold | one analysis after the other, where `Enforcement` has them overlap |
| `Threat` | risk of an EDR report | |
| `Paywall` | from the provider to the guard | `Billing` and `Access`, composed |
| `Lockout` | from the token store to the guard | `Sessions` and `Access`, composed |

A module that takes something from another one takes the weakest thing the other
allows: any content ever committed for the hash, any score for a decision, flags
that may be set at any moment. For `Access`, which takes the most, the two last
modules state that Billing and Sessions do allow no more, and that is proved.

Each module has its `...Proofs` module, with these exceptions: `Trust` and `Threat`
share `ScoreProofs`, and what is proved about `Paywall` and `Lockout` is in
`BillingProofs` and `SessionsProofs`. `MC...` modules hold definitions for
instances that a `.cfg` cannot write.

## 3. The modules

### `CredentialLifecycle`
What the token store promises: a credential is issued once, may be live, and
dead is dead. Twenty lines, refined by `Sessions`.

### `Sessions`
One action per await of `refresh_tokens` and `revoke_and_block`; all the handlers
share the Redis keys.

| Model | Code |
|---|---|
| `claims[j]`, `held` | the *j*-th signed pair; pairs that reached a client |
| `keyUntil[j]` | deadline of `refresh:{user}:{device}:{jti}:{fp}` (0: never set, or deleted) |
| `revokedUntil`, `blockedUntil`, `overlayUntil` | deadlines of the three device flags |
| `attempts` | `refresh_attempts:{device}`; `until = 0` is a counter without TTL |
| `rf[r]`, `rv[v]` | local variables and position of a refresh request and of a `revoke_and_block` |
| `RefreshStart`, `SetWindow` | verification, INCR and its EXPIRE |
| `ReadTTL` | TTL, which rounds; -2 leads to `FlagReuse` |
| `DeleteOld`, `StoreNew` | DEL and signing of the new pair; SET of its key |
| `Scan`, `Unlink` | one SCAN call and the DEL of its page; the guarantees are those of Redis: a key there throughout is returned, another may be |
| `PublishBlock` ... `MarkOverlay` | the four writes of `revoke_and_block`, in their order |
| `AbortRefresh`, `AbortRevoke` | the handler dies at any await |
| `Tick` | time; keys expire by comparison with `now` |

Left out: signatures, issuer and audience (taken as valid), the text of tokens
and fingerprints (a request has the right one or not). `lastRevoke`, `purged`,
`late` and `parent` are history variables for the properties.

### `KillSwitch`
One server process. A relay task bears the name of the socket whose handler
created it, so a leftover task and its successor are told apart. `Waking` says
that handlers whose task is over are ahead in the ready queue of the event loop:
nothing that needs the network runs before them, but a handler that is itself
ready may. That is why `StartListener` and `LastOneOut` have no such guard.

| Model | Code |
|---|---|
| `sk[s]` | `check`, `listen`, `open`, ... : where `websocket_kill_switch` is |
| `connections`, `listenerTask`, `stop` | the hub's set, the two globals |
| `task[t]`, `inbox[t]`, `todo[t]` | position of the relay task, what Redis queued for it, what is left of its broadcast |
| `Register`, `CheckOverlay`, `RegisterFails` | `KillSwitchHub.register` |
| `StartListener` | the test of `listener_task.done()` and `create_task` |
| `Disconnect`, `ReadFails`, `LastOneOut`, `JoinersReturn` | `except`, `finally`, and what follows its await |
| `Subscribe`, `CheckStop`, `Receive`, `ReadTimeout`, `Send`, `EndCast`, `Finish`, `TaskFails` | `relay_kill_switch` and `broadcast` |
| `Publish`, `SetOverlay`, `PublisherDies` with `NextPc` | `revoke_and_block` alone, followed by the worker's or the EDR report's own message, or the alarm of the priority socket |

Left out: the admission of a socket (`Entrances`), and the expiry of `force_overlay` (the model
covers the hour it lasts).

### `Billing`
One (user, device). `rows[d]` is the row that delivery *d* inserted, so two rows
are two entries; contents are named by the event they come from. Postgres is read
committed: `InsertEvent` waits for an open transaction with the same `event_id`,
`Write` for the one that holds the row. A crash before `Commit` undoes everything.
Signature checks are taken as passed.

| Model | Code |
|---|---|
| `recorded`, `rows`, `cache` | committed rows of `billingevent`; rows of `subscription`; the hash, and whether it has a TTL |
| `Verify`, `Replay` | the SELECT for the event, and the early return for a known one |
| `InsertEvent`, `SelectRow`, `Write`, `Commit` | the writing transaction, one statement each |
| `CacheEvent`, `ExpireEvent`, `Reread` | HSET, EXPIRE, `scalar_one` |
| `ReadCache`, `ReadRow`, `FillCache`, `ExpireFilled` | `get_subscription` |
| `Crash`, `CrashReader` with `DeathAt` | a handler ends at any await; the places around HSET and EXPIRE have names, since what dies there is never repaired by a retry |
| `CacheExpires` | Redis drops the hash |

`log` lists the committed events, `at` is its length when a reader saw the row, and
`late` says whether whoever wrote the hash last was overtaken by a commit in between;
the three are history variables.

### `Access`
The guard middleware, the registration and the trial, and POST /status, for one
(user, device). Both entrances share the registration, so a request is one or
the other (`guard`). Row, hash and flags change here by actions of their own: the row
takes any content of `Contents`, the hash any content ever committed, a flag is set
at any moment. That `Billing` and `Sessions` do nothing else is the subject of
`Paywall` and `Lockout`.

| Model | Code |
|---|---|
| `reg` | `created_at` of the row of `deviceregistration`, 0 when there is none |
| `sub`, `cache`, `known` | subscription row, hash, and (history) every content committed |
| `blockedUntil`, `revokedUntil` | deadlines of the two device flags |
| `win[t]` | `rl:{tier}:{user}:{device}`: counter and deadline; 0 is a counter without TTL |
| `rq[r]` | position and locals of a request; `checks` is what is left of the guard's one or two paywall checks, `at` their `now` |
| `ReadRevoked`, `ReadState` | the two GETs of the middleware; the first alone for POST /status |
| `ReadCache`, `TierOf` | HGETALL, expiry and status of the hash, tier, and which paywall checks follow |
| `SelectRegistration`, `Attest`, `InsertRegistration`, `CommitRegistration` | `ensure_device_registration`; INSERT waits for an open transaction with the same key |
| `SelectSubscription` with `Unpaid`, `AnswerStatus`, `PassPaywall` | `compute_paywall_state` and what each caller does with it |
| `Count`, `SetWindow` | INCR and EXPIRE of `check_rate_limit` |
| `Crash` | any await fails, or the process dies |

Left out: the update of an unverified registration (every INSERT of this code sets
`verified_at`), and the texts of tokens and attestations. `since`, `barred`,
`counted` and `opened` are history variables.

### `Entrances`
What comes in beside HTTP, for one device: connections to the two sockets up to the
moment they are open, and gRPC calls up to their answer. A slot of `Calls` is used
again. Time is what is left of each TTL, so nothing bounds the clock.

| Model | Code |
|---|---|
| `counter[k]` | `ws:conn:{ip}:{device}` and `ws:priority:{ip}:{device}`; the count stops one past the limit, beyond which the code tells no counts apart; `ttl = 0` is a counter without TTL |
| `blocked`, `overlay` | what is left of `device:{device}:state` and `force_overlay:{device}` |
| `call[c]` | entrance, address and position of a handler; `told` when it was sent the overlay |
| `Count`, `SetWindow` | INCR and EXPIRE; of the sockets only |
| `Paywall` | `compute_paywall_state`, any verdict; of the kill-switch socket and gRPC |
| `ReadState`, `Answer` | the pipeline of gRPC, its history and score |
| `Accept` | accept of the priority socket and its look at the overlay |
| `Crash`, `Tick`, `SetBlocked`, `SetOverlay` | any await fails; keys expire; `revoke_and_block` |

Origin and token are taken as valid. `known`, `age`, `passes` and `orphan` are history
variables: a flag that was up on arrival and still is, the time since a window was
opened, what passed in it, and whether its first caller died before EXPIRE.

### `Jwks`
Several processes with a cache each, one endpoint, served by the processes of `Hosts`.
`httpx.get` is a blocking call, so a process verifies one token at a time and answers
nobody meanwhile, itself included; the clock goes on, for at most `FetchTime`. That is
an idealised bound: `timeout=2.0` is httpx's limit for each operation (connect, each
read), not for the fetch. A token is its signing key and whether its header names it.

| Model | Code |
|---|---|
| `listed`, `pub`, `gone` | what the endpoint lists, and (history) when each key came and went |
| `cache[p]` | `JWKSCache`: `jwks`, `cached_at`; `seen` is history |
| `FromCache`, `StartFetch`, `Store`, `FetchFails` | `JWKSCache.load`; the age of an answer counts from its arrival |
| `Respond` | `get_jwks`: what is listed when the endpoint sends it |
| `Publish`, `Withdraw` | `build_jwks` reads `jwks.json`, or the settings, at each request, and an operator changes them |
| `Verdict` | `_select_jwk` and the failure of `jwt.decode` |
| `Restart` | a process starts with an empty cache |

### `Enforcement`
The way of a heartbeat, for one device: request, row, history, answer, background
task, queue, worker. A slot of `Beats` carries a heartbeat to the end of its
analysis and is then used again; `Reports` are EDR reports.

| Model | Code |
|---|---|
| `job[x].pc`, `cause` | position of handler and job; why it locks |
| `queue` | list `celery`; `Take` removes the message, as Celery acknowledges early by default |
| `CheckDepth`, `CheckRuntime`, `CheckDecision` | the two breakers; `SlowP95` is the percentile of the window of samples, each over 500 ms or not |
| `Score`, `WriteBaseline` | HGETALL and HSET of the baseline, with other workers in between; `of` counts the scores mean and m2 are of |
| `Decide`, `Audit`, `Sweep`, `Block`, `Notice`, `Sample` | decision, audit row, `revoke_and_block`, last message, runtime sample |
| `Crash`, `OtherSample`, `Tick` | a process dies; jobs of other devices; keys expire |

`passes` is a history variable. A sample is over 500 ms only when the job locked:
the clock it is taken from starts after the scoring (`celery_app.py:115`).

### `Trust`
The analyses of one device in sequence. `hist` is the list as stored, newest first,
the current payload in it; `ScoreOf` appends the current one again, as the code does.
Floats are avoided: the moving average of *n* values is kept times 5^(n-1), the
variance times n^2, and `int(20 * z)` is the number of k in 1..100 with
k <= 20 z, compared as squares. A float that rounds across an integer may differ
by one point from that. The entropy of touches is a constant table (`TouchLoss`).
Left out: what only the diagnostics show (correlation). `scores` and `steady` are
history variables.

### `Threat`
`compute_risk` over counts of entries. The behaviours are reports that grow entry
by entry, which makes "more evidence never scores less" an action property.

### `Paywall`
`Billing` and `Access` for one (user, device). A step is one of webhooks and readers, or
one of a request (`GuardStep`); they share the row and the hash and nothing else.
`Access` is instantiated with what they show: `Shown(cache.val)` for the hash,
`Subscription` for the row. Where two first events have inserted two rows, no SELECT
gets a row and each request that tries dies of it, so the row `Access` sees is then
the last event committed. `AdmittedPaid` speaks of committed webhooks only.

### `Lockout`
`Sessions` and `Access` for one (user, device) of `Sessions`. A request presents the
access token of a pair a client holds (`token[r]`, `Verified` on arrival), and the
flags it reads are the keys of `Sessions`, where `Up` takes a key that has expired for
no key. `found[r]` is a history variable. `RevokedGetNothing` joins `RevokedPairsStayOut`
and `FlagsBar`: the first says when a token ends, the second what a request that
meets a flag may do.

## 4. What the runs check

| Run | Instance | Shows |
|---|---|---|
| `sessions` | 2 requests, 1 sweep, 2 pairs, 4 clock values; 2.2 M states | `LateRequestsRefused`: after a rotation the token yields nothing to a later request. `SweptStayDead`: what a sweep found does not come back. `RevokedPairsStayOut`, `FlaggedForCause`, and `RefreshKeysLifecycle`, the refinement of `CredentialLifecycle` |
| `killswitch` | 2 sockets, 1 publisher, Redis may fail, fair; 158 k | `StopHasOwner`, `LastMessageCovers`, `LeaversReturn`, `LockArrives` |
| `billing` | 3 deliveries of 2 events, 1 reader, crashes, fair; 729 k | `AckedOnce`. `LagHasCause`: the hash differs from the row only before the last webhook has written it, after that webhook died, or when a commit overtook its writer. `CacheIsCommitted`, `StaleEnds`, `Answered` |
| `access` | 2 requests, 3 contents, limit 1, 3 clock values, crashes; 6.3 M | `TrialStartsOnce`: one registration. `AdmittedEntitled`: no stale hash, no comparison with a `now` taken early admits somebody who came after trial and payment. `FlagsBar`, `WindowHolds` |
| `entrances` | 2 calls, 1 address, limit 2, window 2, crashes, fair; 513 k | `RateHolds`: in the window a connection opens no more than the limit get through. `LockMeetsCaller`. `RefusalEnds`: however often an address tries, its count ends, unless it was left without TTL |
| `jwks` | an API process that serves the keys and a worker, 2 keys, 4 clock values; 2.0 M | `AcceptedWasListed`: a withdrawn key verifies for one cache lifetime and one fetch at most. `LongListedIsKnown`: after that long a listed key is unknown nowhere |
| `enforcement` | 2 heartbeats, 1 report, 2 workers, crashes, fair; 392 k | `LockedIsAudited`, `BaselineMatches`, `BreakerSheds`: a device is analysed once per decision and once more per further worker. `AckedIsAnalysed`, `Rescored`: neither queue nor breakers forget a device |
| `trust` | 4 payloads, 7 scores, history of 3, warm-up of 4; 249 k | `SteadyDevice`: a device that repeats itself is never locked. `LockIsRare`: an adaptive lock falls on the lowest fifth. |
| `threat_scores` | 2 apps of each kind, 3 contacts, any permissions; 5 k | `LevelAgrees`, `EvidenceOnlyAdds`: level and score agree at their borders; a report with more in it never scores less |

`Paywall` and `Lockout` have no run of their own: their properties are proved, and their
parts are checked by `sessions`, `billing` and `access`. TLC was used on them before the
proofs, on instances near what it can hold: `Lockout` with one user, device, refresh,
sweep and request and a clock up to 4, completely (6.0 M states); `Paywall` in part
(3.6 M states). Neither has a counterexample there.

Three runs have a counterexample. Each states what a comment or a document says,
and the code does otherwise:

| Run | Counterexample |
|---|---|
| `rotation_consumes` | two overlapping requests both read the TTL before either deletes the key; both get a pair |
| `killswitch_unserved` | a socket that registers while the last leaver waits finds the stopping task "not done", starts none, and is served by none |
| `billing_two_rows` | two first events insert two rows; every later `scalar_one` raises |

Other differences between documents and code, which no run has as its subject:

- A refresh that has read its TTL before a sweep stores its new key after it and
  never looks at `revoked:device` (`tokens.py:74`): a session outlives the revocation,
  where README.md:147 speaks of "revogação de tokens". Its tokens are refused for as
  long as the flag lasts. `SweptStayDead` is what does hold.
- The session key slides up to the cap (`tokens.py:65-70`, "Compute sliding TTL"),
  but the JWT is signed for the base lifetime (`security.py:175`): the extension
  cannot be used, and the key lives on when its token no longer verifies.
- Reuse detection sets `revoked:device` and publishes nothing (`tokens.py:57-60`);
  README.md:118 announces `CRITICAL_LOCK`.
- With the JWKS endpoint down `load` raises 503 (`core/security.py:51`), which no
  caller handles: the static key is not tried, which `config.py:17` calls a "fallback
  when JWKS unavailable".
- `.env.example:5` points `JWKS_URL` at the service itself, and `Dockerfile:17` starts
  one process. While it fetches the keys it answers nobody, so the fetch times out and
  its cache stays empty: with these two settings the API verifies no token. (In the
  `jwks` run this is the first process.) README.md:112 names the endpoint
  `/internal/.well-known/jwks.json`; it is `/internal/jwks`.
- `security.py:96` passes `leeway` to `jwt.decode`, which python-jose 3.3.0
  (`requirements.txt:8`) does not take as an argument (it is one of its `options`), and
  `kill_switch.py:13` and `security_priority.py:57` pass `compression` to
  `WebSocket.accept`, which Starlette does not take either. Run against the pinned
  versions these calls would raise. The models take them as the code intends them: a
  leeway in the comparison with `exp`, a socket that is accepted.
- Both tests of `tests/test_trust.py` ask more of the score than the code gives. Line 42
  expects an entropy above 0 of touches that are all alike; it is 0. Line 29 expects at
  least 60 for a reading that differs a little from twenty equal ones; it is 43, since
  one different value among *n* equal ones lies 0.8 (n + 1) / sqrt(n) deviations from
  the moving average however small the difference is. `Trust` follows the code.
- A connection that dies between INCR and EXPIRE (`api/v1/security.py:74-76`,
  `security_priority.py:50-52`) leaves a counter without TTL: past the limit its
  address is refused for good, where `api/v1/security.py:78` says "try again later".
  `RefusalEnds` excepts that case.
- `security.py:65` says "kid absent/mismatched" for the first key; a mismatched kid
  is refused (`security.py:69`).
- During the warm-up the threshold is 50. The lowest score a history of 1, 2, ...,
  9 payloads allows, by calculation with the code's constants, is 77, 73, 69, 66, 63,
  60, 58, 55, 53: no device is locked by one of its first nine analyses, unless
  its baseline is younger than its history (it expired, or a slow worker wrote an
  old one back).
- After equal scores the deviation is zero, and one point less locks, while gRPC
  calls the same score "safe" from 50 on.
- gRPC looks at `device:{device}:state` and not at `revoked:device:{device}`
  (`grpc_server.py:69`): it serves a device that reuse detection has flagged.
- `GET /trust-score` reads `device:{device}:trust`, which nothing writes: it always
  answers 80. `hb:{user}:{device}` counts heartbeats and is never compared.
- `decision:{device}` lives for 300 s and the block for 3600 s; a job whose heartbeat
  came before the block may analyse, audit and lock again.
- `analyze_signal` opens its loop with `asyncio.run` over an engine and a Redis pool
  made once per process (`celery_app.py`): connections may belong to a loop that is
  closed. The models take each call as succeeding or failing as a whole.
- A refresh token presented within the clock-skew leeway after its nominal end is
  refused as reuse, and the device flagged for an hour (`tokens.py:57`): the third
  case of `FlaggedForCause`.
- `revoke_and_block` publishes before it sets `force_overlay`
  (`tokens.py:92-95`). A socket that registers in between learns nothing from that
  call; `LastMessageCovers` holds because worker and EDR report publish again.
- A priority socket looks at `force_overlay` when it connects and at nothing later
  (`security_priority.py:59`): a lock that comes after that is not told to it.
- The subscription hash is written after the commit and outside of it
  (`billing.py:91`): overlapping webhooks may leave the older content, and the
  retry of a webhook that died before the HSET does not write it. `LagHasCause` lists
  the cases, `StaleEnds` says that they pass with the TTL, unless a handler died
  between HSET and EXPIRE.
- README.md:147 names `CRITICAL_LOCK` among the messages of a critical EDR event;
  `edr.py` publishes `IMMEDIATE_QUARANTINE` and the block of `revoke_and_block`.
- README.md:150 describes a timestamp and drift check of the webhook; `billing.py`
  verifies the HMAC only.
- README.md:25 describes a token bucket; `subscription.py` counts in fixed windows,
  so twice the limit may pass around the end of one. On a cache miss every request
  counts as "trial" (`subscription.py:86`), also that of a paid customer.
- A paid customer whose hash is cached is admitted without a registration, and
  refused (the `HTTPException` of `access.py:32` inside the middleware) once the hash
  has expired, until the device calls POST /status.

### Bounds
Sessions: overlap needs two requests and a sweep; expiry needs a clock that passes
every lifetime once, and lifetimes are scaled so that 1 (access, leeway, window)
< 3 (base, flag) < 4 (cap) keeps the order of the defaults. Time only matters by
comparison, so starting at 1 loses nothing. More pairs and overlapping sweeps are
left to the proof. Kill-switch: the races are between one who leaves and one who
arrives; a third socket is left to the proof. A relay queue is bounded because a
publisher sends at most two messages. Billing: two events to be reordered, three
deliveries so that one is a repetition and one overlaps it. Access: the races are
between two requests; a limit of one makes the second of a window the one too many;
the contents are a plan, a trial and a cancellation that end at 2, so that the clock
passes the trial (0), the flags (1), a window (2) and every subscription. Entrances: two
calls overlap between INCR and EXPIRE; a limit of two lets a second one pass before
the third is refused; a window of two lets EXPIRE come late inside it; a flag of one
ends under a call or is renewed. Addresses share nothing, so one is enough.
Jwks: the first process serves the keys, to itself as well if it could, and the second
one asks it; the clock passes a lifetime (2) and a fetch (1), by when a key that is
withdrawn or published at once has to be gone or known; later times are left to the proof. Enforcement: two workers overlap in the baseline and the breaker; a
depth of 0 lets the first breaker open with one job waiting; one sample decides the
percentile; a decision and a block last 2, so that one expires under a job. Trust:
seven scores are one more than a single outlier needs to lie two deviations below
the mean; a history of three is cut. The liveness runs use no symmetry.

`CHECK_DEADLOCK FALSE` is set where requests, sockets and deliveries are each used
once or clock and token supply are bounded, so that the instance comes to rest; a
server that nobody calls waits. `enforcement`, `entrances` and `trust` never rest and are checked
for deadlock.

### Fairness
`KillSwitch`: weak fairness of every ready coroutine (asyncio runs its queue in
order, the read has a timeout of one second, a send to a dead peer ends with the
server's ping timeout), strong fairness of `Receive` (each read either times out or
delivers, and a queued message is delivered by one of them). Clients, publishers
and failures owe nothing. `Billing`: weak fairness of handlers that have started
(Postgres grants a lock that is free) and of `CacheExpires` (Redis drops a key that
has a TTL). A request that was not sent is not owed, nor is a key without TTL.
`Enforcement`: weak fairness of each heartbeat that has been accepted, through
handler, queue and worker (the queue is a list served in order, a worker takes the
next job when it is free), of the locks of reports, and of expiry. `Entrances`: weak fairness of each handler's own steps, which
may fail instead, and of time. Devices send and connect
when they like; `Rescored` assumes in its own words that heartbeats keep coming.

## 5. What is proved

Every theorem holds for any number of users, devices, requests, sockets,
publishers, events, deliveries and readers. They rest on the named assumptions:
`BoundsAssumption`, `TTLAssumption`, `BaseWithinMax` (base lifetime at most the
cap), `FlagOutlivesAccess` (access lifetime plus leeway below the hour of the flag;
the defaults are 15 minutes and 30 seconds), `HubAssumption`, `BillingAssumption`,
`AccessAssumption` (finitely many requests, positive limits and lifetimes),
`EntrancesAssumption` (the same),
`ThreatAssumption`, `JwksAssumption`, `EnforcementAssumption`, `TrustAssumption` (numbers
in the payloads; a history keeps at least one; `TouchLoss` is at most 50, and 0 for
touches that are all alike, as the entropy of the code is). A configuration that breaks one of the two inequalities loses the property that cites it.

| Theorem | Argument |
|---|---|
| `SessionsProofs!RevocationOutlivesAccess` | `FlagInv`: `lastRevoke[d] > 0` implies `revokedUntil[d] = lastRevoke[d] + FlagTTL`; a pair signed by then has ended before the flag does |
| `SessionsProofs!RotatedTokensStaySpent` | `KeyInv` (keys of pairs not yet stored are unset, each has one storer) and `SpentInv` (a pair with a successor has no live key): the property says nothing of the key, so it is not inductive by itself |
| `SessionsProofs!KeysImplementLifecycle` | each step either issues one pending pair or only lets keys die (`Decay`, `BirthIssues`, `DecayRetires`); time lets several die at once, which is why `Retire` takes a set |
| `SessionsProofs!SweepsAreFinal` | `SweepInv`: each key of the snapshot is dead, owed to the rest of the iteration, or in the page about to be deleted |
| `SessionsProofs!RefusalsHaveACause` | `CauseInv`: a live or expired stored key has a deadline no earlier than the nominal end of its token |
| `KillSwitchProofs!StopIsOwned` | `StopInv` adds that the task of a handler that has not reached `StartListener` does not exist yet, so starting one never overwrites a failed task |
| `KillSwitchProofs!LocksCover` | `CoverInv`: registered sockets are in the hub; overlay before final message; a queued final message has its overlay; a socket is warned, still to be served by the broadcast, or has still to look at the overlay |
| `BillingProofs!AppliedOnce`, `ReplaysFind`, `CacheHasSource` | `BillInv`: `log` lists each recorded event once; at most one open transaction per event, none for a recorded one; handlers past the commit have their event recorded; a recorded event has its subscription row |
| `BillingProofs!LagsHaveCause` | `LagInv` with `BillInv`: a reader about to fill the hash holds the last event unless one was committed since it read; a hash not written late holds the last event, unless the webhook of that event is before its HSET or died there; some row holds the last event |
| `AccessProofs!OneTrial` | `TrialInv`: one transaction has inserted the row, and only while none is committed; any other `created_at` a request knows is that of the row |
| `AccessProofs!OnlyEntitled` | `EntitledInv`: row and hash are in `known`, the `now` that decides is not before the arrival, and whoever is past the decision was covered; registrations and `known` only grow |
| `AccessProofs!FlagsHold` | `FlagInv`: the end of the flags found on arrival has passed, or lies before the deadline of one that is still to be read; deadlines only move forward |
| `AccessProofs!WindowsHold` | `WindowInv`: for as long as a window lasts its key exists, counts at least what the window admitted, and has no earlier deadline; a request between INCR and EXPIRE is alone in its tier. The admitted requests are a set, hence the cardinality lemmas |
| `EntrancesProofs!RateHoldsAlways` | `WindowInv`: a counter outlives the window it opened, has counted what passed in it, and no counter that is gone has a TTL; for the last, `OpenerInv`: one caller at a time sets the TTL of a counter, and it is there without one |
| `EntrancesProofs!LockMeetsCallerAlways` | `KnownInv`: a flag known from the arrival is still up until it has been read; `Routed` keeps the entrances apart |
| `AccessProofs!WindowsAreOwed` | `WindowOwed` is inductive: a window without an end has a request that is to set it, or that died there |
| `BillingProofs!GuardImplemented`, `AdmittedHavePaid` | each step of webhooks, readers and guard is a step or a stutter of `Access`: a commit changes row and `known` together, and `CacheIsCommitted` is what lets the hash take only what is in `known`. Then `OnlyEntitled` holds of the instance. Hypothesis: the assumption of `Access` on limits, lifetimes and contents |
| `SessionsProofs!FlagsImplemented`, `RevocationReaches` | setting or losing a key of `Sessions` is `SetBlocked`, `SetRevoked` or `Tick` of `Access`. `CallInv`: a request whose token was signed by the last revocation it found has found a flag that ends after the token (`FlagInv`), and `FlagsHold` bars it till then. Hypotheses: the (user, device) is one of `Sessions`, and for the second the assumption of `Access` |
| `ScoreProofs!LevelsAgree`, `EvidenceAdds` | sums of naturals (`SumsOK`); each kind of entry adds to the score (`ScoreGrows`) and floor and cap are monotone |
| `ScoreProofs!SteadyNeverLocked` | `SteadyInv`: while a device repeats itself its history is constant and the sum of its baseline is count times the one score such a history has, so the deviation is zero and the score is the mean |
| `ScoreProofs!LocksAreRare` | `RareInv` with `Far`: seen from any point p/q at or above *t*, each score of at most *t* adds at least (p/q - t)^2 to the sum of squared distances, which count, sum and sum of squares determine. It survives one more score. The right p/q turns it into Cantelli's inequality, by which no more than a fifth of the scores lie two deviations below the mean, where a lock is |
| `JwksProofs!WithdrawnKeysEnd`, `RotationReaches` | `Inv`: `Cached` (the cached set is what the endpoint listed at `seen`, and `seen` is at most a fetch before `at`), `Fetching` (an answer likewise, and no fetch outlasts its limit), `Endpoint` (a key is published, listed, withdrawn, in that order) |
| `EnforcementProofs!LocksAreAudited`, `BaselinesMatch` | `Safe`: a job in its lock for a score or a report has committed its row; what a job has read of the baseline matches as the baseline does |
| `EnforcementProofs!BreakerHolds` | `Budget`: the passes of the current decision and the jobs that have found none are together no more than the workers; the number of jobs under analysis never exceeds them |
| `KillSwitchProofs!LeaversAreOwed` | `JoinInv`: all that wait in a `finally` wait for one task; while it runs it is `listener_task` and the stop event is set; once it is over, no other has its place before they have gone on, unless somebody is connected. Needs `CoverInv`, whose registered sockets are in the hub |
| `EnforcementProofs!QueueForgetsNone` | `QueueHolds` is inductive with `Safe`: positions in the list and jobs that are "queued" correspond one to one |
| `BillingProofs!HashIsOwedItsTTL`, `EntrancesProofs!CountersAreOwed` | both are inductive: who writes without a TTL is at EXPIRE, and leaves that place by setting it or by dying |
| `TypeCorrect` in the others | with the ranges of the locals of a running handler (`Working`), resp. a non-empty queue during a broadcast |

The proofs are laid out per action: `StepType`, `KeyStep`, `StopNext`, ... each have
one step for every disjunct of `Next`; effect lemmas (`LoginEffect`,
`DeleteOldEffect`, ...) state what an action does to the parts the invariants
mention, so that the steps do not expand the whole action again.

Only model-checked: the seven properties under fairness (`LeaversReturn`, `LockArrives`,
`StaleEnds`, `Answered`, `AckedIsAnalysed`, `Rescored`, `RefusalEnds`), since `ENABLED` and
liveness are out of reach of the proof system's installed backends. Four of them
have a safety half that is proved: `LeaversAreOwed`, `HashIsOwedItsTTL`,
`QueueForgetsNone` and `CountersAreOwed` say that the step they wait for always has
somebody whose step it is, or who died before it; fairness says that it is taken. These
four and `WindowsAreOwed` are stated in the `...Proofs` modules and are in no run.

The sums and averages of `Trust` and `Threat` are folds over series of any length. The
induction theorems of the library take an operator as a parameter, which the installed
provers cannot instantiate; `ScoreProofs` states induction about a set instead
(`Induction`, from the well-foundedness of the naturals), shows with it that the function
a fold chooses exists (`FoldExists`), and from there what a fold adds at each index
(`FoldRuns`). No module that is proved about has a `RECURSIVE` operator.

## 6. What is not modelled

- Origin and token of the sockets and of gRPC are taken as valid: the checks change
  nothing and come before every read of shared state.
- Of the attestation only the verdict matters here.
- The audit endpoint is one query; configuration, schemas and migrations have no
  behaviour of their own.
- Names put together with `:` and read back by splitting (`kill_switch.py:33`) or
  globbing (`tokens.py:79`): identifiers are taken as free of `:` and `*`.
- Left out of the modelled parts: cryptography and text formats, several server
  processes sharing the channel (each has its own hub, and they meet in Redis
  only), metrics nobody reads, Redis failover and Postgres serialization errors
  beyond "the handler dies here".
