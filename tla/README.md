# Verification of the federated-learning coordinator

This directory holds a TLA+ model of the coordinator of the federated threat-hunting
platform, the configurations under which TLC checks it, and proofs that TLAPS checks.
Names of the code are kept where TLA+ allows it; `PROJECT.json` maps every definition that
models code to its lines. All paths below are relative to the repository.

## 1. The system

The coordinator is one FastAPI process (`coordinator/app.py`) with one SQLite database for
its tables, a second one for the audit trail, and a directory of model files. Organisations
reach it with client certificates, operators with an API key or the web console. It is
restarted whenever it stops (`restart: unless-stopped`).

Every handler is an `async def` on one event loop and calls the database synchronously. It
therefore runs without interleaving from one `await` to the next, and there are only two
kinds of `await` that matter:

- between the mTLS middleware, which decides who the caller is, and the handler body, while
  the form or the JSON body is parsed;
- `await model.read()` in the middle of `submit_contribution`.

A handler makes several commits, each durable on its own. The process can stop between any
two of them, and nothing repairs what an interrupted handler left.

| Component | State it keeps | Operations | Hard parts | What makes it correct |
|---|---|---|---|---|
| Contribution intake (`api.py`, `store.py`) | `challenges`, `contributions`, contributed model files | issue challenge, contribute | the read in the middle of the checks; retries; crash after the challenge is spent | a challenge counts once; a row rests on fresh, bound, current evidence; one accepted row per organisation and round; what was accepted is aggregated |
| Round and model lifecycle (`api.py`, `store.py`) | `rounds`, `global_models`, `round_{id}.json` | start, aggregate, publish, roll back, serve | three to four commits per handler, one file name per round | one active version; nothing served before it soaked; a published round is completed; the bytes served are those published |
| Organisation registry (`api.py`, `store.py`, `flproto/ca.py`) | `orgs`, `enrollment_tokens`, CRL in memory and on disk | enrol, mint and redeem a token, block, unblock, revoke, ask to leave, approve | stale identity, two commits in redemption and approval, CRL best effort | tokens enrol once, an enrolment stands until revoked, removals rest on a request and are confirmed, revoked certificates are listed |
| Trust manager (`trust.py`) | `orgs.trust_score`, `orgs.last_accuracy` | evaluate | repeated aggregation, two commits per reward, floats at the floor | scores stay in [0, 1]; a verdict stands until another contribution passes; below the floor nothing is scored or merged |
| Federated bagging (`aggregation.py`) | none | merge, schema gate | rounding, cap, inputs one parser accepts and the other does not | one feature space; shares as documented; whoever is credited is in the model |
| Audit trail (`audit.py`) | `audit_log`, cached last hash | log, verify | commit that fails, restart | what was logged stays; the chain breaks only where a commit failed |
| Federation CA (`flproto/ca.py`, `init_ca.py`) | key and certificate files | init, load, issue | crash between files, a coordinator that starts meanwhile, rotation | keys and certificates in use belong to one CA; revoked certificates are listed |
| Application start-up (`app.py`) | `app.state` | open the trail, load CA, keys, CRL, validation set | half-loaded CA | a committed change is logged and answered |
| mTLS middleware (`mtls_middleware.py`) | none of its own | identify | its verdict is used later | only active organisations with unlisted certificates |
| Reference client (`client_ref/`) | none between calls | draw a challenge, sign, post, fetch, verify | timeouts | one signature per challenge |
| Security, console, logging, deployment | roles, session cookies | | | out of scope, see section 7 |

Interactions: the registry decides who may call intake; intake fills the rows the lifecycle
aggregates; aggregation scores the contributors in the registry's table; every handler ends
in the audit trail.


## 2. Modules

| Module | What it is |
|---|---|
| `RoundIntake` | challenges, signed contributions and the closing of a round |
| `ModelLifecycle` | aggregation, staging, publication and rollback, commit by commit |
| `PublishedModel` | the abstract promise about the model organisations are served |
| `OrgStanding` | the abstract promise about organisations: whose key counts, and when it may be another |
| `OrgRegistry` | enrolment, tokens, status, CRL, removal by mutual acknowledgement |
| `FedBagging` | shares and cap of the merge, as operators |
| `TrustScoring` | scoring the contributions of a round and merging those that pass; extends `FedBagging` |
| `AuditTrail` | the hash chain, its transaction and its connection |
| `FederationCa` | the CA directory, `init_ca`, loading at start, the CRL file |
| `CoordinatorHost` | composes `AuditTrail` and `FederationCa`: the process, and the handlers that use both |
| `MCRoundIntake`, `MCModelLifecycle`, `MCOrgRegistry`, `MCCoordinatorHost` | symmetry sets for TLC |
| `MCTrustScoring` | symmetry, and the models organisations contribute |
| `RoundIntakeProofs`, `ModelLifecycleProofs`, `OrgRegistryProofs`, `FedBaggingProofs`, `TrustScoringProofs`, `AuditTrailProofs`, `FederationCaProofs`, `CoordinatorHostProofs` | theorems and their proofs |

No module has a RECURSIVE operator. Operators such as `FreshOneSided` or `UsableTwice`,
each defined just before the operator it resembles, are variants a plausible mistake would
produce. Nothing uses them; they exist to show that a property fails once the code is wrong
in that way (`mutants` in `PROJECT.json`).

### RoundIntake

| State | Code |
|---|---|
| `now` | `time.time()` of the coordinator |
| `org[o]` | `orgs` row: is the status `active`, and which of its keys is `public_key_pem` |
| `round[r]` | `rounds` row: status, `started_at`, and the rows the aggregation took |
| `chal[c]` | `challenges` row |
| `att[c]` | the attestation a client signed over challenge `c`: organisation, round, key, `submitted_at` |
| `req[q]` | one HTTP request; the requests with stage `accepted` or `rejected` are the `contributions` table |
| `unsaved` | rows whose INSERT is still in the open transaction |

A `POST /rounds/{id}/contribute` is a record with a stage, because it suspends twice. It
goes from `authenticated` (past the middleware) to `reading` (at `await model.read()`) in
`BeginContribution`, which makes the checks up to api.py:908, and from there to its end in
`FinishContribution`, which makes those after it. Each is one atomic step, as nothing runs
in between on one event loop. `RefuseContribution` covers the early returns after the read;
`BurnChallenge` the failures after the challenge was spent. `Crash` loses every request
under way; one of them may have spent its challenge already, that being a commit of its own.

All handlers share one connection. When the last commit of `record_contribution` raises
(store.py:366), the call ends in 500 and its row is `unsaved`: queries find it, any later
commit saves it (those of the handlers that are not modelled are `CommitElsewhere`), a crash
loses it. This is the only commit of intake whose failure is modelled.

A client signs once per challenge, as `build_signed_contribution` does, but may post the
result any number of times, also after a timeout and while the earlier post is pending
(`Overlap`), and may name another round than the challenge was drawn for, or quote the
challenge of another organisation. The handler refuses an attestation that does not name the
authenticated organisation (api.py:886), so the one it names is the one that posts. Its clock may be
off by `Skew`. An attestation is what was signed and with which key; a hash that does not
match and a file that is too large are one nondeterministic refusal, since nothing that
follows depends on which.

Simplifications: organisations are enrolled from the start; suspension stands for block,
revoke and leave, which `OrgRegistry` tells apart, and re-enrolment may be under any key, an
earlier one included. These are the steps of `OrgStanding`, no more and no fewer (section 5). What the trust validation decides is
whether the round leaves `running`. A round is for all organisations, see section 7.

### ModelLifecycle and PublishedModel

| State | Code |
|---|---|
| `round[r]` | `rounds` row: `status`, `started_at` |
| `gm[v]` | `global_models` row with id `v` |
| `file[r]` | `round_{id}.json`, one name for all versions of a round |
| `log` | `audit_log` entries of the three handlers, in its own database |
| `op` | the handler under way, with its local variables and the commit it has come to |
| `crashes` | how often the process has stopped in a handler |

No handler here suspends, so at most one is under way; but a handler is a chain of steps,
one per commit, and the process can stop between any two:

    aggregate  BeginAggregate -> WriteModel -> StageVersion -> CompleteRound -> WriteAudit
    publish    Publish -> MarkCompleted -> WriteAudit
    rollback   Rollback -> WriteAudit

The first step of each makes the checks and, for publish and rollback, the commit of
`promote_global_model`. A crash while the file is written may leave it `Torn`: `write_bytes`
truncates first. What the contributions merge into is any member of `Blobs`, since
aggregating a round again may see other trust scores; a hash is the content hashed.

`PublishedModel` says what this is for, without rounds, versions, files or handlers: models
on trial until a given time, those ever released, the one served. The code implements it in
two readings, both by refinement: of the version table (`TableKeepsPromise`), in spite of
crashes, and of the bytes that `GET /global-model` reads and signs (`BytesKeepPromise`),
only as long as no handler is cut short. The abstract trial set is a set of (model, end) pairs,
so two staged versions of equal content and equal end are one element of it; that is why
`Release` may leave the element.

### OrgRegistry

| State | Code |
|---|---|
| `row[o]` | `orgs` row: status, key, certificate serial, the key of the stored leave attestation, is there a removal confirmation |
| `token[t]` | `enrollment_tokens` row by `jti` |
| `cert[s]` | certificates the CA issued for an enrolment: for whom, for which key, by which token |
| `crl`, `disk` | serials on the CRL held in memory, and in the file read at start |
| `elsewhere` | is `FL_CA_DIR` unset, so that the CRL is written to another file than the one read? |
| `leaving` | leave requests between middleware and handler |
| `op` | the handler under way between two of its commits |
| `agreed`, `damaged`, `faults` | history: organisations whose present revocation is an approved removal; was the last rewriting of the CRL cut short; interrupted handlers and failed CRL writes |

Three handlers have more than one commit: redeeming a token (`RedeemToken`, then
`EnrollRedeemed` or `RefuseRedeemed`), revoking (`RevokeOrg`, `RegenerateCrl`) and approving
a removal (`ApproveRemoval`, `ConfirmRemoval`, `RegenerateCrl`). The leave request alone
suspends between middleware and handler, so its identity may be stale: `SendLeave` is the
middleware's verdict, `OrgLeaveRequest` the handler, which looks the organisation up again
and verifies the attestation under the key registered then. `RegenerateCrlFails` is the
exception that `_regenerate_crl`'s callers swallow. A certificate whose enrolment was refused
leads nowhere and is not recorded.

`OrgStanding` is what the rest of the coordinator sees of this: an organisation has one
registered key, which counts or does not, and which is replaced only while it does not, by an
enrolment of that organisation alone. `KeepsStanding` says that the registry implements it,
with tokens, removals, the CRL and faults as stutters; `RoundIntake` is built on the same
specification.

### FedBagging and TrustScoring

| State | Code |
|---|---|
| `rows[r]` | accepted `contributions` of the round with a model file, in the order received |
| `trust[o]`, `short[o]` | `orgs.trust_score` in hundredths; is a score of exactly 30 stored as slightly less than 0.3? |
| `base[o]` | `orgs.last_accuracy` |
| `merged[r]` | the round's model: contributors in order, trees taken of each, organisations credited |
| `noted[r]` | the `fl.round.schema_mismatch` entry |
| `failed` | rounds whose aggregation has ended in 500 |
| `validating` | is `TrustManager.validation_data` there? |
| `op` | the handler under way: the contribution it has come to, the weights so far |
| `scored` | history: the verdicts on an organisation's models since one of them passed, that one included |

    aggregate  BeginAggregate -> (MissingModel | Exclude | Accept -> Reward)*
                              -> AllRejected | Unreadable | NothingUsable | Merge

`Accept` and `Reward` are the two commits of a contribution that passes, the baseline and the
score; a `Restart` between any two steps leaves what was committed. `AllRejected` is the 422,
`Unreadable` and `NothingUsable` are exceptions that escape; after each of them the round is
still running and may be aggregated again over the scores the last attempt left. So a
contribution can be penalised or rewarded once per attempt, and with two rounds open a verdict
can turn over, either way, when a contribution to the other round has moved the baseline.
`VerdictsStand` says how far verdicts are stable: until another contribution passes.

A tree is one of the first so many of its contributor. `_set_trees` renumbers the ids inside the
trees; that loop is not modelled.

A score is a chain of floating point sums with steps of 0.02, 0.10, 0.15 and 0.20. In
hundredths the chain is exact; that a sum of exactly 0.30 may come out below 0.3 is the choice
of `short`. Likewise `Shares` allows each result `int(len * frac)` may have. A model is its
form (does XGBoost load it, apply it, does `json` parse it), its accuracy on the validation
set, its schema key, its number of trees and its reported number of examples. Differences of
accuracy that are exactly `MaxDrop` are excluded by `NoTieAssumption`, as rounding would
decide them. Writing and staging the file are part of `Merge`; `ModelLifecycle` takes them
apart. An organisation may have two rows in a round (finding 1), and the properties say what
that changes.

### AuditTrail

| State | Code |
|---|---|
| `table` | `audit_log` as committed |
| `pending` | rows inserted in the open transaction of the only connection |
| `prev` | `_prev_hash` |
| `open` | does the process have the trail open? |
| `calls`, `acked`, `stray` | history: calls of `log()`; those that returned; those that raised with their row left pending |

`log()` inserts, commits and only then updates the cached hash. If the commit raises, its row
may stay in the open transaction, and the next commit takes it along while the next hash is
chained to the predecessor of both: `verify_integrity` then reports the row behind it. A hash
is the sequence of what went into it, so equal hashes mean equal histories.

### FederationCa

| State | Code |
|---|---|
| `file` | the six files of the CA directory: by which run of `init_ca` they were written, absent or torn; of the CRL, how many revocations it lists |
| `init` | the `init_ca` under way and the file it has come to |
| `at`, `hand`, `app` | the file `build_app` reads, the local variable it was read into, `app.state` |
| `elsewhere` | is `FL_CA_DIR` unset, so that `_regenerate_crl` writes under `data/ca`? |
| `revoked` | revocations so far |
| `inits`, `done`, `sound`, `listed` | history: runs of `init_ca`, those that returned; has no start found an unfinished CA; has every rewriting of the CRL succeeded |

`init_ca` is a program of its own. It is one step per opening and per filling of a file, and
interleaves with `build_app`, which reads the files one by one in another order. Loading
stops at the first file that is absent or torn, and what was assigned by then stays. A
directory of the old layout has no separate signing key.

### CoordinatorHost

| State | Code |
|---|---|
| `org[o]` | the `orgs` row, and what the enrolment package carried: which CA signed, which CA certificate and which coordinator key came with it; the audit entry of the latest change, and was it answered |
| `op` | the handler under way after its first commit |
| `mishaps` | handlers that were stopped or could not log |

`Start`, `Read`, `StopIdle` and `Crash` are joint steps of both parts; `RunInit` belongs to
the CA alone. `EnrollOrg`, `EnrollWithToken` and `RevokeOrg` commit, then the CRL is
rewritten (`RegenerateCrl`) if it is a revocation, then `WriteAudit` or `AuditFails`, then
`Answer`. The two ways to enrol differ in what they ask for: by token, the signing key as
well; by the operator, the CA only, and the signing key is missed after the commit. The
modules `AuditTrail` and `FederationCa` are extended, not copied, so that what is proved of them
holds here: every step of the host is a step or a stutter of each.

An organisation enrols once here; when it may do so again is `OrgRegistry`'s business. The
redemption of a token, a commit of its own, is there too.

## 3. Runs

| Run | Shows | Instance |
|---|---|---|
| `intake_overlap` | a challenge stands behind one row; rows rest on a challenge for their round, spent and in time; accepted means fresh, and signed with the key the organisation holds at that moment | 1 organisation, 2 rounds, 2 challenges, 2 overlapping posts, skew beyond the tolerance, failing commits |
| `intake_serial` | one accepted contribution per organisation and round, for clients that wait for their answers; a row rests on a challenge of its own organisation; an aggregated round without outstanding reads and unsaved rows is final | 2 organisations, 1 round, 2 challenges, 3 posts |
| `intake_duplicate` | finding: two accepted contributions of one organisation | 1 organisation, 2 posts |
| `intake_after_aggregate` | finding: a contribution accepted after its round was aggregated | 1 organisation, 2 posts |
| `lifecycle_crash` | one active version, both windows before publication, a completed round is published and final, the table refines `PublishedModel` | 2 rounds, 2 contents, 4 versions, 2 crashes |
| `lifecycle_whole` | without crashes: served bytes are those staged, tables and audit trail agree, the bytes refine `PublishedModel`, aggregated rounds are completed | 2 rounds, 2 contents, 2 versions, no crash |
| `lifecycle_served_unpublished` | finding: the bytes served are not those of the active version | 1 crash |
| `lifecycle_never_completed` | finding: a published round is never completed | 1 crash |
| `registry` | tokens enrol once, enrolments stand, removals rest on a request under the present key; the registry implements `OrgStanding`; the CRL is complete unless its last rewriting was cut short or went elsewhere; without faults approved removals are confirmed | 2 organisations, 2 keys, 2 certificates, 2 tokens, 1 fault, `FL_CA_DIR` set or not |
| `registry_removal` | finding: an approved removal without its confirmation | 1 organisation, 1 crash |
| `trust` | a verdict stands until another contribution passes; below the floor nothing is scored or merged; one feature space, the documented shares; credit matches the merge; only unusable contributions make an aggregation raise | 2 organisations, 2 rounds, 3 contributions out of 8 kinds, 2 aggregations, 1 restart, cap of 4 trees |
| `host` | logged entries stay and the chain breaks only behind a failed commit; packages belong to one CA; committed changes are logged and answered; revoked certificates are listed | 2 organisations, 4 log calls, 2 runs of `init_ca`, 2 revocations, 1 mishap |

Why the instances are enough to be interesting:

- A duplicate, a replay or a stale verdict needs two requests of one organisation, and a
  wrong round needs two rounds. The serial run has a second organisation, so that someone
  else's row is there to be mistaken for one's own, and a third post, so that a challenge
  can be burnt and the organisation still succeed. The windows are one or two ticks, and the
  clock goes far enough for a challenge to expire and a timestamp to drift out of tolerance
  while a body is read. Two keys (`MaxKey = 1`) are enough to enrol under another one and
  to come back to the first, while a request signed under either is still being read.
- A version that is overwritten, published twice or rolled back to needs two versions of one
  round and one of another; two crashes interrupt an aggregation and the retry. The clock
  covers both windows of two rounds one after the other.
- With two organisations, keys, certificates and tokens, a revoked organisation can enrol
  again under the same or another key, by a token minted before. The history `faults`
  keeps the properties about whole handlers meaningful in the same run.
- The first round of `trust` gives an organisation a baseline (95) or cannot be aggregated
  (binary); the second offers a model as good as the first, one suspiciously worse, a poor
  one, one without trees, and ones that do not load or do not apply. Organisations start at
  100 or at 40, from where a penalty of 10 lands exactly on the floor of 30 and one of 20
  below it. Three rows let an organisation appear twice, or two of them share a round
  with different schemas and weights. Two attempts and one restart are an interrupted
  aggregation and its retry. The cap of 4 cuts off the lightest. Floor, gates and steps have
  the values of the code; the cap of 500 trees and of a million examples are smaller.
- In `host` two runs of `init_ca` are a CA and its replacement, or one cut short and another
  one after the directory was archived; a coordinator that starts meanwhile can read files of
  the old layout, of either run, or none. Two organisations and two revocations leave one
  certificate on the list before a rotation and one after it. Four calls of `log()` are
  enough for a commit that fails, one that takes its row along, and one behind the break.

The identities are interchangeable, so the runs without liveness use symmetry; version ids
are ordered and have none. Deadlock is not checked: every instance stops when its clock, its
requests, its certificates or its audit trail is used up, and the system itself may be idle for ever.

The bounds are `Horizon` (clock), `MaxKey` (keys of an organisation), `MaxVersions` (version ids),
`MaxRows` (contributions), `MaxAttempts` (requests to aggregate), `MaxRestarts`, `MaxCalls`
(calls of `log()`), `MaxInits` (runs of `init_ca`), `MaxRevocations`, `MaxCrashes`, `MaxFaults`
and `MaxMishaps`. They bound the environment (time, enrolment, new versions,
contributions, requests, crashes and failed writes), never a step a handler has to make; only
`MaxVersions`, the finite set `Serials` and `MaxCalls` can hold up a handler: between writing a
file and recording its version, between redeeming a token and enrolling, and before it
logs.

## 4. Fairness

Only `ModelLifecycle` states liveness. `FairSpec` assumes

- `WF(Continue)`: a handler that has begun goes on; the event loop has nothing else to run,
  since it does not suspend;
- `WF(Tick)`: time passes;
- `SF(Publish)` for each round: the operator keeps asking for the publication of a
  round that can be published. Strong fairness, as the request is disabled while another
  handler is under way, and a request that arrives meanwhile waits in the loop and is
  answered. That somebody publishes is an assumption about people, not about the code.

Nothing obliges anyone to start or aggregate a round, or to roll back, and crashes are never
required. Under this, `AggregatedCompletes` holds if no handler is cut short and fails after one
crash: the operator still asks, but there is no staged version any more.

## 5. Theorems

The proofs hold for all values of the constants. They assume what the modules state
by name: times and bounds are natural numbers (`TimingAssumption`, `BoundsAssumption`), and
the null values are not among the values they stand for (`NullAssumption`,
`ContentAssumption`, `NoneAssumption`, `NoneIsOther`, `HostAssumption`), thresholds are in
range (`TrustAssumption`, `CapAssumption`), no accuracy drops by exactly the tolerated amount
(`NoTieAssumption`). TLC evaluates these in every run.

**RoundIntake.** The types alone are not inductive: a handler reads the challenge and the
attestation of its request without testing that they are there. `TInv` adds that a request
past its arrival quotes a signed attestation over an existing challenge, and that what is
unsaved are rows. `SInv` adds
`ChallengeSingleUse`, `RowsBackedByChallenge` and `AcceptedFresh` together, because single use
needs that every old row has spent its challenge. From it follow `SingleUse`, `RowsBacked` and
`AlwaysFresh`; `CurrentKey` and `DrainedFinal` are about steps and need `TInv` only.
`OnePerOrgRound` assumes `~Overlap`: its invariant says that an organisation has one pending
post and that what the duplicate check found before the read is still so.

How intake and registry fit together is a matter of three theorems. `StandingKept`, of the
registry, says that all it ever does to the organisations are steps of `OrgStanding`;
`StandingIsCovered`, of intake, that any step of `OrgStanding` that leaves the rest alone, and
saves what is unsaved as every commit does, is a step of `RoundIntake`, at whatever stage its
requests are; `OrgsStand` that intake needs no
others. So what is proved of intake under its own few actions for organisations holds under
the whole registry, interrupted handlers and all. Intake's organisations have enrolled once:
before that nothing it has refers to them.

**ModelLifecycle.** `LInv` consists of the types, what the handler under way has in hand,
what it found when it began (a running round, or a version), and how the end of a
version's soak relates to its round's start. It is inductive however many crashes there are,
and yields `AtMostOneActive`, `SoakedBeforePublished`, `CompletedArePublished`, `CompletedStays` and the refinement
`TableRefines`: promotion is a release or a return to what was released, staging is the
beginning of a trial, everything else a stutter. With `MaxCrashes = 0` the further invariant
`Whole` says for each version how far its handler can be behind: `WholeHandlers`,
`PublishedAreCompleted`, `AuditIsComplete` and `BytesRefine`.

**OrgRegistry.** `TInv` is the types, that a row which is there has a key and a certificate,
what a handler has in hand, and that a leave request was sent under a certificate.
`EnrolmentsStand` follows from it. `TokensEnrolOnce` needs that a token between the two commits
of its redemption is spent and behind no certificate; `RemovalsRestOnRequests` and
`RemovalsConfirmed` that between the commits of approval the request is still there and the
organisation still revoked; `RevokedAreListed` that the list is complete unless a revocation
is under way or its last rewriting was cut short (`damaged`), and, the file being the one a
restart reads, that `FL_CA_DIR` is set. `RemovalsConfirmed` concerns states without faults,
for any `MaxFaults`.
`StandingKept` needs `TInv`: that a row which is there has a key makes unblocking it a
reinstatement, and that the key a redeemed token brings is one makes the second commit an
enrolment.

**FedBagging.** The sums over contributors are folds over sets, and what a fold computes is
shown without the library's induction theorems: a smallest set for which it failed, or a
smallest number, would have a smaller one behind it; the lemma `SumTakesOut`, that any element
can be taken out of a sum first, is what the others use. `CutIsPrefix` and `CapHolds` say that the cap takes the first trees of the whole list, leaves no
more than it allows, and drops a contributor only when those in front have used it up;
`HalfShare` and `IncludedShares` that, heaviest first, the base is whole and nobody else gets
more than half of its trees unless that is one.

**TrustScoring.** `TInv` is the types and what the aggregation under way has in hand: it is of
a round not yet merged, has no more weights than contributions, and a contribution between
its two commits is there. `RefusalsStand` needs in addition that a contribution about to be
rewarded is the only verdict in its organisation's `scored`: the new baseline is then its own
accuracy and the reward leads away from the floor, so it would pass again, while a penalty
neither moves the baseline nor brings a refused one nearer to passing. `MergesAboveFloor` needs that a contribution that
has survived so far is of an organisation above the floor, as long as it has no other one in
the round. `FeatureSpace` and `Failures` look at how a model is composed, or an attempt
fails, and need that an aggregated round gets no further rows and others only lose none.
`CInv` adds what a merged round carries from the moment of its merge: before the cap, each
contributor's share is the documented one (`IncludedShare`); the credited are the
contributors, unless an organisation is there twice or one brought no trees
(`CreditedContribute`); and nobody noted for a foreign schema is credited, unless an attempt
failed (`CreditNotNoted`). With `MergeTakesShares`, which follows the contributors from the
sorting to the record, the theorems about `FedBagging` then yield
`SharesAreWeighted` and `CreditIsDue` for every number of rows and every cap.

**AuditTrail.** Both theorems follow from one invariant: the committed and the pending rows
are in the order of their calls, the pending ones all stray and hashed on top of the last
committed row, the last committed row is not stray, and the cached hash is its hash while the
trail is open. So the first row of each commit is linked, and every later one is behind a
stray row.

**FederationCa.** As `init_ca` writes the CA key first and refuses if there is one, a directory
with a CA key holds files of one CA only, and while a coordinator reads them nobody archives:
so what it reads one after the other belongs to one run (`LoadsFit`), and if the key is of a
run that has returned, all of it is there (`LoadsWhole`).

**CoordinatorHost.** Each host step is a step or a stutter of both parts, so the invariants
of the parts hold here by the lemmas that prove them there: `HostAcksRecorded`,
`HostChainBreaks`. `HostInv` adds what the handler under way has done. `PackagesFit` then
rests on `LoadedFits`, `CommitsAreAnswered` on `LoadedWhole` and `AckedRecorded`,
`RevokedAreListed` on the same statement about the list in the directory and the CA key there,
and on one about a coordinator without a CA: nothing it revokes was signed by the CA whose
directory it would find. It holds under the conditions its property states: every rewriting of
the list has succeeded, `FL_CA_DIR` is set, and no start has found an unfinished CA.

`HostIsParts` states the composition itself: the host implements `AuditSpec` and `CaSpec`.

Only model-checked: `AggregatedCompletes`, the one liveness property. It rests on fairness
and so on ENABLED, which is out of the prover's reach. That each violation run ends in its
counterexample is for TLC alone, too.

## 6. Findings

The five violation runs show, each with a counterexample:

1. `intake_duplicate` - two posts of one organisation, whose bodies are read at the same
   time, both pass `has_accepted_contribution` (api.py:903) and are both accepted.
   `README.md:55` and `store.py:371` promise one.
2. `intake_after_aggregate` - a contribution being read while its round is aggregated is
   answered `accepted=true` and never aggregated (api.py:901).
3. `lifecycle_served_unpublished` - after a crash between `stage_global_model` and
   `complete_round`, aggregating again overwrites the file of the first staged version, and
   publishing twice makes that version active over foreign bytes.
4. `lifecycle_never_completed` - after a crash between promotion and `set_round_status` the
   round stays `aggregated`, and its own endpoint refuses the published model.
5. `registry_removal` - after a crash between the two commits of `approve_removal` the
   organisation is revoked without a confirmation, though the comment says it is persisted
   first.

Met on the way, without a run: contributions are accepted after the intake window until
the round is aggregated (api.py:763-764 describes the window otherwise); `target_org_ids` is
consulted by round discovery only (api.py:683); `unblock_org` reactivates a revoked
organisation, whose certificate remains listed until the next regeneration (api.py:520);
an aggregation that ends in 422 has committed its trust changes and returns none of the signed
notices about them (api.py:1144), which `PROTOCOL.md:63` calls "returned by `/aggregate`".

Also without a run, as conditions that properties of `lifecycle_whole`, `registry`, `trust` and
`host` could not do without; dropping one gives TLC's counterexample:

- auditing comes after the state change and in another database, so a crash in between loses
  the entry (api.py:1207), although `README.md:93` says "every click is recorded in the audit
  chain" (`MaxCrashes = 0` for `AuditComplete`);
- without `FL_CA_DIR` start-up reads `{data_dir}/ca` (app.py:112) and `_regenerate_crl` writes
  `data/ca` (api.py:156), so that a restart takes revoked certificates off the list without any
  fault (`elsewhere` in `RevokedListed` and `RevokedOnList`);
- a coordinator started on a directory that `init_ca` has not finished has a CA and no signing
  key; `POST /orgs/enroll` then commits and logs an enrolment and raises (api.py:327), although
  app.py:123 says "enrollment will return 503" (`sound` in `CommittedIsAnswered`);
- a commit of the audit trail that raises may leave its row to the next commit, behind which
  `verify_integrity` reports a break for good (audit.py:63-69; `ChainBreaksAtStrays` says
  exactly when);
- a contribution XGBoost accepts but `json` does not parse, or one without trees as the
  heaviest, passes the trust validation and makes every aggregation of its round raise
  (api.py:1158, aggregation.py:130; `FailsOnUnusable`), and each attempt commits rewards;
- a contribution without trees is credited in the round's record though the merge skips it
  (the exception in `CreditMatchesMerge`).

## 7. Not modelled

| Part | Why |
|---|---|
| X.509, ECDSA and Ed25519, AES, canonical JSON | libraries and conversions; a signature is the record of what was signed with which key |
| Where the proxy puts the client certificate, its expiry | configuration of the edge; the middleware's verdict is modelled |
| Operator roles, console, sessions | a stateless table of permissions and pages over the same handlers; every operator action is by a user who may do it |
| Differential privacy, data set loading, training | numerical code without protocol state |
| Whom a round targets | no handler on the way of a contribution looks at it |
| What the TLS listener reads of the CA directory | uvicorn's, at its own start; only what `build_app` loads is modelled |
| A validation set whose contents change | it is there or not; another set would score every model anew |
| The renumbering of tree ids (aggregation.py:89-97) | a loop over the trees, one after the other; its result restates it |
| A commit that raises, other than that of an audit entry or of a contribution's row | the same mechanism once more: the change stays in the open transaction until the next commit |
| What is inside a tree, API keys, `AuditTrail.query` | data nothing else depends on, and a read |
| Two runs of `init_ca` at once, archiving during a start | an operator's doing that neither program guards against |
| Logging, images, compose files | formatting and configuration; taken from them: one process, restarted when it stops |

## 8. What could follow

- The same between intake and scoring as `OrgStanding` is between registry and intake: what
  `RoundIntake` accepts as the rows of `TrustScoring`, so that the duplicate of finding 1 is
  carried into the weights of the merge by a theorem.
- An abstract intake (a set of contributions, at most one per organisation and round) and the
  refinement under `~Overlap`.
- Properties without the conditions of section 6, as runs of their own.
- A client that trains, fetches and verifies, with rounds lacking their announcement.
