# Bharat Trust Exchange: a TLA+ model of the exchange's core

Bharat Trust Exchange (BTX) lets public-sector nodes exchange data under
consents that are granted, revoked, expired and audited. This directory holds
TLA+ modules of the parts that keep state and run concurrently, the TLC
configurations that check them on small instances, and proofs, checked by
TLAPS, of what holds for every instance. Source paths are relative to
`src/btx-repo/`.

    tlc -workers 2 -config control_plane.cfg MCControlPlane    # one run
    tlapm ControlPlaneProofs.tla                               # one proof

`PROJECT.json` lists, for tools, the components, runs, hazards, theorems,
findings, one code-like mutation per checked property, and the source lines of
every definition that models code.

## 1. The system

| Component | State | Operations | Who else touches the state |
|---|---|---|---|
| Consent tables: `services/control-plane/src/adapter/db/repository.ts`, `migrations/001_init_consents.sql` | tables `consents`, `audit_events`, `outbox` in Postgres | `create`, `getById`, `updateStatus`, `appendInTransaction` | every request of every pod, the expiry job |
| Consent service: `domain/consent-service.ts`, routes in `server.ts` | locals across `await`; objects of the archive | grant, revoke, query, audit trail, daily root | the tables, policy evaluator, object store |
| Expiry job: `adapter/jobs/expiry-job.ts` | `running`, a Postgres advisory lock | `tick`, `expireOne` | the tables, beside every request; the jobs of other pods |
| Outbox publisher: `adapter/kafka/outbox-publisher.ts` | `running`, `producer`, `workerPromise`; `published_at` of the rows | `connect`, `start`, `stop`, `disconnect`, `drainOnce` | other pods' publishers; Kafka |
| Broker reconfiguration: `server.ts:95-113`, `domain/broker-plugin-config.ts` | the stored configuration, the variable `outboxPublisher` | GET and PUT `/v1/admin/plugins/message-broker` | overlapping admin requests, the worker |
| Idempotency plugin: `pkg/idempotency/src/index.ts` | recorded replies in Redis | `preHandler`, `onSend` | the mutating routes of all pods |
| Federation sync: `services/trust-node/` | tables `peer_syncs`, `federation_state` | POST `/v1/federation/sync`, GET `/v1/federation/state/:nodeId`, GET `/v1/federation/pending` | posts of other peers, other pods |
| Policy plugin: `pkg/policy/src/index.ts` | the bundle in force and its age | `load`, `reload`, `evaluate` | object store, key service |
| Key service of the local stack: `docker/kms-stub/server.mjs`, client `pkg/adapter/kms/src/stub.ts` | key files, maps `keks`, `signingKeys` | generate-dek, decrypt, sign, verify, public-key, hash | overlapping calls, restarts |
| Daily Merkle root: `consent-service.ts:196-231`, `pkg/audit/src/index.ts` | table `merkle_roots` | `computeDailyMerkleRoot`, `runDailyMerkleJob` | the trail |
| Registry: `services/registry/` | table `trust_nodes` | register, show, list; operators set a status | trust-nodes, operators |
| Portal, grant flow: `apps/portal/src/features/consent/GrantFlow/` | React state of the four steps | review, proceed, tick, submit, done | `POST /v1/consents`, through `onGrant` |
| Portal, broker page: `apps/portal/src/features/admin/`, `App.tsx` | form, saving flag; a loaded configuration that nothing displays | load, save | the admin route, other admins |
| Object-store adapters: `pkg/adapter/objectstore/src/` | none of their own; the bucket is the provider's | put, get, head, signUrl, delete of S3, Azure Blob, Cloud Storage, MinIO | every caller of the bucket |
| Cloud KMS adapters: `pkg/adapter/kms/src/` | none of their own; the keys are the provider's | generateDataKey, decryptDataKey, sign, verify, publicKeyPem of AWS, Azure, Google | callers, key rotation |
| Bootstrap: `pkg/bootstrap/src/cloud-adapters.ts` | the chosen provider | `getCloudConfig`, `create*Adapter` | start-up |
| Log and secret adapters, telemetry, shared helpers | configuration read once | log lines, spans, reads | - |
| Tools, conformance, deployment | none of the exchange's | scripts, manifests | - |

How they interact: a client's request passes the idempotency plugin, then the
consent service, which writes `consents` and, in a later transaction,
`audit_events` with `outbox`; the publisher of any pod moves outbox rows to
Kafka; the expiry job of any pod closes rows beside the requests; the admin
route replaces a pod's publisher; trust-nodes post cursors to each other; the
policy plugin decides by a bundle that the key service has signed. The portal
sits in front of two of these: its grant flow awaits a request that passes the
idempotency plugin, and its broker page loads from and saves to the admin route.
Every process reaches its bucket and its keys through one provider's adapters.

What is hard in it is not any single function. Node's event loop suspends each
handler at every `await`; several pods run the same code on one database with
no row locks and no conditional updates; every statement may fail before or
after it took effect; pods die between two statements. `PROJECT.json` lists 40
hazards of this kind at their lines, and the properties that cover them. A
hazard may be wider than its properties; its note then says which part is left,
and why no property holds of it.

What makes each part correct, informally: the trail never lacks what a client
was told; a closed consent does not reopen; nothing leaves the outbox before
Kafka has it and each consent's events arrive in order; one publisher of a pod
drains at a time; a repeated request mutates once and is answered alike; a
peer's cursor is one it posted and was accepted for; only signed rules allow; a
data key that was handed out can be decrypted later; an acknowledged write of the
bucket is not undone by an older one; `verify` accepts nothing that was not
signed; a node that registers again stays what operators made it; a page knows
of every consent granted through it, and a broker configuration that it calls
saved is the one asked for and in force, unless requests of admins overlap.

## 2. Modules

```
ConsentStore --- ConsentService (with MerkleRoot) --+
             \-- ExpiryJob -------------------------+-- ControlPlane --implements--> ConsentLedger
OutboxPublisher --implements--> EventDelivery
      \-- BrokerReconfig
               \-- AdminPanel --implements--> BrokerReconfig
Idempotency
      \-- GrantFlow --implements--> Idempotency
ObjectStore --- KmsAdapters --- CloudAdapters
KmsKeys --- PolicyBundle        FederationSync        Registry
```

`MC*` modules add symmetry and model values; `*Proofs` modules hold the theorems
of the module they are named after. `BrokerReconfigProofs` has those of
`OutboxPublisher` and `AdminPanel` too, `GrantFlowProofs` those of `Idempotency`,
`CloudAdaptersProofs` those of the three adapter modules, and
`ControlPlaneProofs` rests on `MerkleProofs`.

| Module | Models | State and actions against the code |
|---|---|---|
| `ConsentStore` | the tables | `status`, `parties`, `revokedAt`, `due` are columns of `consents`; `audit`, `outbox` the committed rows. `CreateRow`, `UpdateStatus` (by id alone), `AppendInTransaction` (both rows or none; actor must be a UUID) are one statement or transaction each. External: `Activate` (no code activates a consent) and `Elapse` (time) |
| `ConsentService` | requests | `pc[r]` is the `await` a handler is at: `policy`, `create` or `read`, `update`, `append`. `Receive*` are the routes, `Fail` every error path and the pod's death, `Archive` the put that is not awaited |
| `MerkleRoot` | `computeDailyMerkleRoot` | `Round` is a turn of the loop, `Levels` the nodes after each: pairs, an odd last node with itself; a hash is the tuple hashed |
| `ExpiryJob` | the job of each pod | `jpc[p]` is its `await`; `holder`, `depth` are advisory lock 42001, which belongs to a session, while `pool.query` picks any session. `TickLock`, `Select`, `Recheck`, `Expire`, `AppendRejected`, `TickEnd`, failures, `CloseSession`, `PodCrash` |
| `ControlPlane` | the composition | requests and jobs interleaved on one database; the properties |
| `ConsentLedger` | abstract | a consent opens once and closes once; what is on the trail, and what may be acknowledged |
| `OutboxPublisher` | the workers of all pods | `row[e]` from `open` transaction to `published`, `createdAt` fixed at BEGIN; `wpc[p]` is the point in `drainOnce`: `Poll`, `Send`, `SendThrows`, `MarkPublished`, `MarkFailed`, `MarkThrows`; pods come, stop and die |
| `EventDelivery` | abstract | committed events reach Kafka, then are retired; none of it is undone |
| `BrokerReconfig` | one pod's admin route over `OutboxPublisher` | `upc[r]` is the `await` of `reconfigureOutboxPublisher`: stop, disconnect, connect; `global` is `outboxPublisher`, read again after each. `ConfigOf` is what the store makes of a body: blank brokers are dropped, and none left means the provider's default; `updatedAt` is the request that made the update. `GetAnswer` and `answer[r]` are what GET and PUT answer |
| `AdminPanel` | the portal's broker page over `BrokerReconfig` | `page` is what it waits for, `form` the form's own state, `told` whether it says "Last saved" of its last save. What the page loads, or is answered, becomes its state, which only goes to the form as an initial value, after the form is mounted: nothing reads it, so it is left out. `Loaded`, `Save`, `Saved`, `SaveLost`; other admins' requests are those of `BrokerReconfig` |
| `Idempotency` | attempts with keys | `Lookup` (preHandler), `RunHandler`, `Store` (onSend), each with its failure, `Forget` (TTL), `Die` |
| `GrantFlow` | the portal's grant flow over `Idempotency` | `step` is the step shown, `awaited` the request `handleGrant` waits for (`loading`). `GoTo` does not touch what is awaited; `Granted` shows the receipt from whatever step; `Disconnected` rejects while the request goes on; `Leave` drops the page's state |
| `FederationSync` | posts and state queries | `spc[s]` is the statement of `syncFromPeer` to come; `Statement` its effect; `Resume`, `Fails`, `Die` what follows, and whether it took effect |
| `KmsKeys` | the key service | `at[c]` is where a call is in `loadOrCreateKek` or `loadOrCreateSigningKey`; files are truncated, then filled; `Restart` leaves files only |
| `PolicyBundle` | the plugin over `KmsKeys` | `lpc[c]` is where a `load()` is: fetching, verifying; `Verified` installs; `Evaluate` is `evaluate` |
| `Registry` | the registry of nodes | `reg`, `status`, `created` are the columns, and `created` is the instant of the first registration, which two rows may share; each request is a statement (`Register`, `GetById` then `UpdateLastSeen`, `List`, `SetStatus`), which may fail before or after it takes effect (`Fails`): `late` has the lost ones that take effect later (`Land`). `found` and `listed` are what the answers hold; a list is one of the admissible cuts of the newest rows (`Newest`), since ties have no order |
| `ObjectStore` | put, get, head, signUrl, delete of four providers on one key | `object` is the write that is there; `spc[c]` the request a call awaits; `late` the writes that may still take effect. Where providers differ is one operator each (`ChecksDigest`, `AsksForMetadata`, ...). `Put`, `PutMetadata`, `Read`, `ReadMetadata`, `Head`, `Delete`, `StoreFails`, `Land` |
| `KmsAdapters` | the five operations of three clouds | `kpc[c]` is the request or the result; `ver[c]` the key version used; `Rotate` makes a new one in Key Vault. `AwsSend`, `GetKey` with `UseKey` and `PublicKeyPem` (Azure), `GcpSend`, `EmptyResponse`, `KmsFails` |
| `CloudAdapters` | one process with its adapters | `Chosen` is `getCloudConfig`; `CallStore`, `CallKms` its calls |

Abstractions that hold throughout: ids, nodes, payloads and key material are
model values; request schemas and wording are left out; a policy refusal, a
missing row, a 403 and a thrown statement leave the same state and are one
`Fail`. History variables (`earlier`, `overlapped`, `failed`, `disturbed`,
`moved`, `accepted`, `unsure`, `fetchedAt`, `asOf`, `signatures`, `dataKeys`,
`rejected`, `before`, `over`, `overAt`, `acked`, `replaced`, `known`, `stale`,
`began`, `troubled`) decide no step, but for `trouble` of `KmsAdapters`, which
also tells that a wrapped key came out empty.

## 3. What the runs check

Nine runs pass and three find a disagreement of a document with the code. The
longest, `federation`, takes about two minutes with two workers.

| Run | Instance | What it shows |
|---|---|---|
| `control_plane` | 3 requests, 1 consent, 1 node, 1 pod with 1 session; symmetric | the invariant of the proofs, `IInv`, holds; clients and auditors may rely on `AcknowledgedIsRecorded`, `RecordedRevocationHolds`, `RevokedAtTellsTheRevoker`, `ArchiveHoldsOnlyRecorded`, `ExpiresOnlyWhatWasDue`, `QuerySeesAcknowledgedRevocation`, `RootChangesWithTrail`; the code implements `ConsentLedger` |
| `liveness` | 1 request, 2 pods with 2 sessions each, lock depth 2 | two ticks overlap only when one lost its session; requests and ticks end; what is due gets expired although locks stay behind on idle sessions |
| `outbox` | 2 rows of 1 or 2 consents, 2 pods, batches of 2, one row that Kafka may refuse alone | `OutboxInv`; first copies of a consent's events in order; `EventDelivery!Safety`; and `EventDelivery!Spec`: every committed event is delivered and retired |
| `reconfig` | the page and one more admin (2 requests), 8 bodies of 2 providers with an empty, a blank and a given broker, 3 publishers, 1 row, connects may fail | one draining worker at a time; requests one at a time leave the stored configuration in force; nothing stays unpublished unless requests overlapped or a connect failed; a save that the form calls successful was answered with what it asked for, defaults included, unless another admin's request overlapped it, stays stored until another one is stored, and until then is in force unless requests overlapped; the form comes back |
| `idempotency` | the page's 2 attempts, 2 keys | the handler runs once per key and every answer is the same, as long as attempts do not overlap and Redis keeps what it got; a success is of a committed mutation of that key; every consent granted through the flow is awaited, on the receipt, or reported as failed; the spinner ends |
| `federation` | 3 posts, 2 peers, cursors to 2; symmetric | cursors come from logged, accepted posts; the answer agrees with the tables; one post after another leaves the last accepted cursor |
| `policy_keys` | 3 calls, 1 key id, 1 restart, 2 bundles, instants 0 and 1; calls symmetric | only signed rules allow; a kept bundle is as fresh as it counts; data keys survive; genuine signatures are not refused |
| `adapters` | 3 calls, of either kind, of each provider; 2 key versions; symmetric | no late, lost or failed request brings back what an acknowledged write replaced; no answer is of something replaced before the call, or mixes two contents that did not overlap it; `verify` accepts only its own signatures, and every rejection of one is explained |
| `registry` | 4 requests, 2 nodes, lists cut at 1 or 2, 2 instants; symmetric | `RegistryInv`; registering again changes neither status nor place; an acknowledged node is found, and not as an older registration; lists are complete up to their limit |
| `revocation_final` | 2 requests | finding: an expiry overwrites a revocation |
| `closed_on_trail` | 1 request | finding: an expired row has no event |
| `reconfig_race` | 2 requests, connects succeed | finding: nobody drains after overlapping requests |

**Bounds.** Requests, attempts, posts and calls are handled once each, and a
retry is another one. Three of them let two operations overlap and a third
read, or repeat, their result; a grant, a revoke and a query of one consent need
just three, and so do a late write, a write acknowledged after it, and a read.
The registry needs a fourth: a registration, its repetition, an operator and
whoever looks. The grant flow has two attempts, which is what a second
submission takes; its safety properties are proved for any number, with
attempts of others. Rows of different consents do not meet in any statement, so
one consent is enough where no order between consents matters; the outbox, where
a batch mixes them, has two. Its two rows fill a batch, so a batch that the limit
cuts is not reached with a second row in it; the proofs cover every limit and
every number of rows, and only its liveness rests on the instance. `Refusable`
names the rows that Kafka may refuse alone: the first copy of such a row may be
overtaken, so `FirstCopiesInOrder` is about the others, in either order of the
two. Two pods are enough for a race; a third repeats what one of the two does.
`control_plane` has one pod and one session since the lock matters only between
pods, which `liveness` covers with two of each. `MaxLockDepth` bounds the
re-entrant lock: deeper levels only keep it longer, until its session closes.
`MaxRestarts`, `MaxTime`, `MaxCursor`, `MaxVersion` are the smallest values at
which a restart separates two calls, a bundle ages past its TTL, two cursors
differ, and a rotation comes between `sign` and `verify`. The publishers of
`reconfig` are one more than its requests, so that each can make one.
With these, every action of every module fires.

**Symmetry** is used in runs without liveness properties only.
**Deadlock** is checked in the runs of `ControlPlane` and `OutboxPublisher`,
where jobs and pods go on for ever. The other systems stop when their requests,
attempts, posts or calls are used up, and their configurations say
`CHECK_DEADLOCK FALSE`.

## 4. Fairness

No client, user, crash, failure or outside event is ever obliged to happen.
Assumed is only what the code's scheduling gives:

- weak fairness of what the event loop does next for a request, tick, worker,
  attempt, admin call or page (`Handle`, `TickStep`, `Work`, `Go`, `Resume`,
  `Granted \/ Rejected`, `Loaded \/ Saved`): an awaited call settles, with
  success or an error, and the loop goes on. For workers, attempts and admin
  calls the condition is the weaker one on all of them together, which is all
  that the properties need: as long as any can go on, one does;
- weak fairness of `CloseSession`: the pool drops idle sessions after
  `idleTimeoutMillis: 30000` (`server.ts:30`), and connections do not last;
- strong fairness of `TickLock`: `setInterval` fires every minute, and among
  many pods and ticks one finds the lock free again and again;
- strong fairness of the job's `Select`, `Recheck` and `Expire`, and, by whichever
  worker, of `Poll`, a successful `Send` and `MarkPublished`: a statement or send
  repeated for ever does not fail every time. This is an assumption about
  Postgres and Kafka, not about the code. It excludes a message that Kafka always
  refuses, for which the code has no dead-letter queue;
- weak fairness of `PodUp`: when all pods are down, one is started again.

## 5. What is proved

Eight `*Proofs` modules; each of a system first proves its invariant inductive
(the initial states have it, each action keeps it, one step per action) and
derives the rest from it.

| Module | Theorems | Inductive invariant, and why its parts are needed |
|---|---|---|
| `ControlPlaneProofs` | `Invariance`, `TypeCorrect`, `AcknowledgedCorrect`, `RevocationCorrect`, `RevokedAtCorrect`, `ArchiveCorrect`, `TrailCorrect`, `LockCorrect`, `ExpiryCorrect`, `QueryCorrect`, `RootCorrect`, `HandlersAdvance`, `RequestsEnd`, `ImplementsLedgerCorrect` | `IInv`. `RequestShape` says what a handler holds at each `await`. `TrailShape`: an event is its request's, which has ended, so none is reported twice. `TargetShape`: ids are known only after the grant is on the trail, and a revoke past its UPDATE left the row closed, which is why a later append cannot find it open. `JobShape`: what a tick selected was active and due, so `Expire` never meets a pending row; the lock is held unless the session was lost |
| `MerkleProofs` | `RootCommitsToDay` | no state: a theorem about `MerkleRoot`, by induction. Distinct nodes have distinct parents and are known from them (`LevelInjective`), also where an odd last node is paired with itself; two trees with one root are then the same from the root down, and end at one depth since a leaf is no parent (`TreesAgree`) |
| `BrokerReconfigProofs` | `OutboxCorrect`, `NothingLost`, `InOrder`, `ImplementsDeliveryCorrect`; `ReconfigCorrect`, `OneWorkerCorrect`, `InForceCorrect`, `ReconfigLosesNothing`, `ReconfigImplementsDelivery`; `PanelImplementsReconfig`, `PanelCorrect`, `PanelPromises` | `OutboxInv`. `InstantsShape`: what had committed before a row's BEGIN is older. `BatchesInOrder`: a batch holds all older rows of its consents that Kafka lacks, although other pods publish rows between its poll and its send; order follows, as a send fails by whole partitions. `BatchShape`: rows being marked are in Kafka. `ReconfigInv`. `TokenShape`: either a publisher runs, or one request holds the right to start one, or the right is lost; a worker whose flag is cleared is waited for by that request. `TurnShape`: what a lone request finds. `PanelInv` adds the page. `AskedShape`: what carries the instant of the page's last update, in the store or in an answer, is what its form asks for. `AnswerShape`: only a request that overlapped another one is answered with another's update |
| `FederationSyncProofs` | `FederationCorrect`, `CursorCorrect`, `LastAcceptedCorrect`, `AnswersCorrect` | `FedInv`. `PostShape`: which statements have taken effect at each step. `CursorShape`: a settled peer's row is that of its last accepted post, or of the one post in flight that has moved it |
| `PolicyBundleProofs` | `KeysCorrect`, `AllowsOnlySignedCorrect`, `CachedWithinTtlCorrect`, `DataKeysCorrect`, `RefusalsCorrect` | `KeysInv`. `KekShape`: a KEK in use is the one on disk, and one being written has no reader. `PairShape`: a pair is used only when both files exist, and while they do nobody makes another. `LoadShape`, `BundleShape`: a load asks about the object it fetched, and a bundle in force was signed and is no younger than it counts |
| `GrantFlowProofs` | `RunsOnceCorrect`, `SameAnswerCorrect`, `SuccessCorrect`; `FlowCorrect`, `GrantsCorrect`, `FlowImplementsPlugin`, `FlowPromises` | `IdemInv`. `ReplyShape`: replies are of runs for their key. `TurnOfKey`: of an undisturbed key one attempt is in flight, and its run is stored or about to be. `FlowInv`. `SubmitsKnown`: the flow awaits each of its attempts, was rejected, or shows the answer's consent. `OwnRun`: an attempt whose handler ran is answered from that run, so a receipt that names another attempt's consent belongs to one that granted nothing. `FlowShape`: a receipt ends the flow, so none is overwritten |
| `RegistryProofs` | `RegistryCorrect`, `LookupsCorrect`, `ListsCorrect`, `StatusCorrect` | `RegistryInv`. `RowShape`: an acknowledged node has a row, and a row's registration is over and was not replaced by an acknowledged one: a lost registration may land late, but one that was acknowledged or replaced never takes effect again. `ReadShape`: what a request has to know of is in the table, and a lookup between its two statements holds nothing that had been replaced when it was made. `NewestIsFullOrAll`: a cut of the newest rows is full or complete |
| `CloudAdaptersProofs` | `AdaptersCorrect`, `WritesStay`, `ReadsAreCurrent`, `VerifyIsSound` | `StoreInv` and `KmsInv`, each kept by its own steps. `OverShape`: what the histories call over has no write to come, so a new content is never one of theirs. `SecondShape`: between its two requests a call has seen the object that is there, or one since replaced. `VersionShape`: what is verified was signed by a call that is over, with a version no newer |

The theorems hold for all values of the constants that meet the assumptions
`ActorAssumption`, `NullAssumption`, `PoolAssumption`, `OutboxAssumption`,
`ReconfigAssumption`, `IdempotencyAssumption`, `FederationAssumption`,
`KmsAssumption`, `PolicyAssumption`, `PanelAssumption`, `FlowAssumption`,
`CallsAssumption`, `VersionAssumption` and `RegistryAssumption`. These say that
placeholder values are no real ones, that bounds are naturals, that the
publisher of start-up exists, and that the registry has finitely many nodes. TLC
evaluates them in the runs of the modules that declare them. Sets of requests,
pods, rows, attempts, posts and calls may be infinite.

**Induction.** `LeastElement` (a nonempty set of naturals has a least element)
and `BoundedInduction` of `MerkleProofs` follow from the library's theorem that
`<` is well-founded on `Nat`. They take a set where the library's rules of
induction take a predicate, which the provers cannot instantiate. The tree is a
recursive function, not a `RECURSIVE` operator, and `LevelsEquation` proves that
it exists. `RootCommitsToDay` needs events to be distinct, as the ids of
`audit_events` are: with repetitions, [a, b, c] and [a, b, c, c] share a root.

**Liveness.** `RequestsEnd` is proved from the fairness of `Handle` written with
its enabling condition (`pc[r] \in Running`, at which `Fail` may always step)
instead of `ENABLED`, which the prover cannot reason about; `HandlersAdvance` is
its variant. It is the first half of `RequestsAndTicksEnd`.

**Only model-checked.** The other liveness: ticks end (`RequestsAndTicksEnd`),
`DueConsentsExpire`, `DeliversAll`, `PublishedUnlessDisturbed`, `FormComesBack`,
`SpinnerEnds`. They need `ENABLED` of joint actions and induction over the rows
or attempts left. And the three violations.

## 6. Where documents and code disagree

The three violation runs:

1. `revocation_final`. `expireOne` reads the row and then updates it by id alone
   (`expiry-job.ts:83-87`, `repository.ts:38-47`). A revoke that commits in
   between becomes `EXPIRED` and loses its `revoked_at`; the runbook calls
   revocation final by design (`consent-revocation-cascade.md:163`). The consent
   stays closed all the same (`RecordedRevocationHolds`, proved).
2. `closed_on_trail`. The job's actor `system:expiry-job` is no UUID, but
   `audit_events.actor_node_id` is `UUID NOT NULL`: every append of the job is
   rejected after the row became `EXPIRED`, against `expiry-job.ts:14-15`. A
   revoke whose append fails leaves a closed row without event in the same way
   (`consent-service.ts:115`), against ADR-0021:19.
3. `reconfig_race`. Two overlapping PUTs can leave a running publisher without a
   connected producer, or none running, for ever, against "DB commit implies
   eventual Kafka publication" (`outbox-publisher.ts:7`).

Seen while modelling, not turned into runs:

- ADR-0020 rules out advisory locks that span statements; the job uses one, and
  takes and releases it through the pool. So a lock may stay behind on an idle
  session (all ticks skip until it closes), and two ticks can overlap when the
  locking session closes (`OneTickUnlessSessionLost` says exactly when).
- Delivery is at least once: a send whose answer is lost, or a failing mark,
  repeats messages. ADR-0020 wants exactly-once; ADR-0021:21 a dead-letter
  queue, which the code does not have.
- A connect that fails leaves the pod without a running publisher, and no later
  PUT starts one (`server.ts:110`). The answer of a PUT may show the
  configuration of another one.
- Two attempts with one key that both look it up before either answer is stored
  both run the handler, against ADR-0022:37; `RunsOnceUnlessDisturbed` says when
  this cannot happen.
- Error replies are recorded and replayed like successes; the control-plane's
  TTL is 3600 s (`server.ts:41`), ADR-0022 says 24 hours.
- A federation post answered `error` and logged `failed` may have moved the
  cursor, against `federation-service.ts:17`; overlapping or late posts move it
  back; a post whose pod died stays `pending`, and nothing takes it up again; a
  post without signature or key is not checked.
- The key service reads its public-key file with `createPrivateKey`
  (`kms-stub/server.mjs:45`): after a restart every use of a signing key is an
  error. Overlapping first uses of an id generate its key twice, so that data
  keys of one of them are lost at the next restart. A read during another call's
  write keeps an empty KEK in memory until the restart.
- A query says that it writes no outbox row (`consent-service.ts:167`), and
  writes one.
- A policy bundle's TTL is looked at by `load()` alone, which nothing calls after
  start-up, so `evaluate` goes on with a bundle of any age.
- `audit_events` has a partition for May 2026 only; every append outside it
  fails like any other failing append.
- The grant flow's "Not now" stays enabled while a grant is awaited, so the
  receipt may appear over another step; leaving the page loses it. A page that
  says a grant failed does not know it: the connection may have broken after the
  commit, and a second submission under a new key grants again.
- The broker form keeps the default it was mounted with: what is loaded, or
  answered to a save, is displayed nowhere, and saving an untouched form stores
  the default over it (`MessageBrokerPluginPanel.tsx:27`). When another admin's
  request overlaps, "Last saved" may be said of an answer with that one's
  configuration (`SavedIsInForce` says when).
- MinIO's `put` does not look at `sha256B64`, which the interface says a store
  must reject on mismatch (`objectstore/src/index.ts:6-7`).
- A read of an object being replaced, or the etag of a `put`, may be of two
  writes on Azure and Cloud Storage, which ask for body and metadata apart.
- Azure's `decryptDataKey` returns the wrapped key as it is: it compares ten
  elements with an eleven-byte prefix, in another spelling
  (`kms/src/azure.ts:82`). Google's `verify` asks for a decryption and always
  answers false (`gcp.ts:117`); it and Azure's say false when a request fails, and
  Azure's (`azure.ts:133`) whenever the result is a plain Boolean.
  AWS alone does not map the key name `encrypt` to a configured key.
- A `CLOUD_PROVIDER` that is none of the known names takes the stub, also when
  `NODE_ENV` is production (`cloud-adapters.ts:20,70`).
- A node's second statement (`last_seen_at`) that fails turns its answer into 404.

## 7. What is not modelled

- Log and secret adapters, telemetry, shared helpers, tools, conformance tests
  and deployment keep no state that a later step of the exchange depends on.
- `runDailyMerkleJob` and `appendInTx` of `pkg/audit` have no caller: there is no
  schedule to model them under.
- The policy plugin is modelled, but no service of this commit registers it, so
  the policy check of `ConsentService` is an outcome.
- Pure reads (`getAuditTrail`, `getPendingSyncs`, lists of consents, health
  checks), the bearer-token hooks, logging, metrics, message formatting and
  schema validation are left out of the modelled parts.
- In `Registry`, the fields of a registration are one value, told apart by the
  request that sent them.
- In `ObjectStore` one bucket and key stands for all, since no operation touches
  two; bodies are told apart by the call that wrote them. A write is one request:
  attempts that a provider's SDK repeats by itself are left out, so an earlier
  attempt of an acknowledged write does not land late.
- In `KmsAdapters` an Azure `verify` may answer true; that is the most the code
  allows, as with a plain Boolean result it answers false (section 6).
- In `BrokerReconfig` the order of a broker list, the 401 of a wrong key and
  bodies that the schema refuses are left out.

Two compositions would come next, if the instances stay small enough: the routes
of `ConsentService` in place of the one-step handler of `Idempotency`, and the
outbox rows of `ConsentStore` in place of the producers of `OutboxPublisher`.
