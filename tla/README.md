# ce-drive-serve: TLA+ models, checks and proofs

ce-drive-serve hosts drives on the CE mesh: it answers the `ce-drive/v1` requests of clients from
replicated drives (`ce_drive_core::SyncedDrive`, another repository), keeps them on disk, feeds
mirrors and a search index, and lets its replica set grow by discovery.  This directory holds
TLA+ modules of the parts where order, failure or a boundary decides whether the host keeps its
promises, the TLC configurations that check them on small instances, and TLAPS proofs for every
value of the constants.  `PROJECT.json` ties each definition to the lines it models.

## 1. The system

| part | code | state it keeps | operations |
|---|---|---|---|
| durability | `serve.rs` `snapshot_drive`, `spawn_durability`; `main.rs` boot loop; `tenant.rs` `create`, `restore` | drive in memory, `<drive>.cedrive`, `<drive>.cejournal`, last checkpoint, tick counter, registry mutex | journal and apply a request, snapshot, reset, checkpoint, crash, boot |
| change feed and mirrors | `feed.rs`; `op_open`, `op_poll`, the handlers that record; `tenant.rs` | `Feed.changes`, the cached snapshot | record, Open (cached or published), Poll, restart |
| serve loop | `run`, `handle_inbound`, `announce` | the `seen` set; in the node: subscriptions, inbox, stream | subscribe, drain, open the stream, handle, reconnect |
| peer discovery | `main.rs` `spawn_peer_discovery` | `known`, the host's id, the registry mutex | status, lookup, `add_writer` |
| corpus surface | `corpus.rs`, `op_items`, `extract_node`, `fetch_content`, `call_app` | none; the index keeps `since`, `offset` and its items | walk, filter, sort, page, extract |
| ranged reads | `op_read`, `read_plan`; `read` in `cedrive.py` and `cedrive.js` | none; the client's buffer | resolve, plan, fetch, trim |
| namespace handlers, etags | `op_stat`, `op_write`, `op_mkdir`, `op_move`, `op_copy`, `op_delete`, `etag_for` | the drive's tree | one step each under the lock |
| listing | `op_list`; `ls` of the two clients | none; the client's cursor | one page |
| authorization, sharing | `required_ability`, `op_path`, `authorize_req`, `enforce_prefix`, `revoked_set`, `op_share` | none; the capabilities in circulation are with their holders, revocations on the chain | let pass or refuse, mint |
| wire types, registry map, rest of the clients | `wire.rs`, `tenant.rs`, `cedrive.py`, `cedrive.js` | the registry behind its lock | as far as the modules need them, see 7 |
| read-only metadata, command line | `op_meta` ..., `main.rs` | - | not modelled, see 7 |

**How they interact.** One serve loop runs one request at a time.  Every handler takes the
registry mutex.  `op_open` gives it up half way, to publish; the durability task takes it three
times per drive and tick and saves with it released; the discovery task holds it across calls to
`ce-coord`.  A mutating handler journals and applies through the drive library, records in the
feed, drops the guard, sends a beacon, and replies.  Mirrors pair a snapshot with a cursor of the
feed.  The crawl, the listing and the ranged read take the lock once per page or read and see a
drive that has changed since their page before; the crawl then calls other apps for the text of each
file, with the lock released and the serve loop held.

**What is hard.**
- *Durability*: a request between `to_state` and the reset; two records per file write; failing
  saves and resets; a crash at any point.
- *Mirrors*: changes while a snapshot is published; page limit 0; lost replies; a feed that starts
  again at 0, over a drive that may have lost acknowledged changes.
- *Serve loop*: one request in the inbox and on the stream; messages between drain and stream; a
  dedup set that is cleared at a cap and dies with the host; failing subscribes, drains and streams;
  a node that restarts at any moment; stream items that come as errors.
- *Discovery*: failure on one drive; failing lookups; a lock held across slow calls; an unknown own id.
- *Crawl and listing*: a drive that changes between pages, and, by merges, while a page is extracted;
  boundaries of filter, offset and limit; clocks that are ahead or set back; content and
  kind apps that are slow, broken or missing.
- *Capabilities*: shares of shares, each re-rooted at the host; 0 as "never"; scopes and names that
  share letters; a path that is checked before it is trimmed and used after; revocations that could not
  be fetched.
- *Reads and writes*: a path rebound while its chunks are fetched; saturating sums; several writers
  within a millisecond; merges between the check of an etag and the write; retries of what was done; a
  request that runs twice.

## 2. Modules

| module | models | checked by | proofs |
|---|---|---|---|
| `Durability` | the two tasks, the mutex and the three files | `MCDurability` | `Durability_proofs` |
| `DurableStore` | abstract: what a client may rely on across crashes | `MCDurability`, as the property `ImplementsStore` | in `Durability_proofs` |
| `MirrorSync` | feed, Open with its cache, Poll, a polling client | `MCMirrorSync` | `MirrorSync_proofs` |
| `Replication` | abstract: a feed that is gap-free and resumable | `MCMirrorSync`, as the property `ImplementsReplication` | in `MirrorSync_proofs` |
| `RequestService` | abstract: requests that were sent run, each once in a life of the host | `MCServeLoop`, as the property `ImplementsRequestService` | in `ServeLoop_proofs` |
| `ServeLoop` | the loop against an external node | `MCServeLoop` | `ServeLoop_proofs` |
| `PeerDiscovery` | the discovery task, the mutex, requests that need it | `MCPeerDiscovery` | `PeerDiscovery_proofs` |
| `CorpusCrawl` | `op_items` page by page with its calls to the apps, and an index that crawls | `MCCorpusCrawl` | `CorpusCrawl_proofs` |
| `RangedRead` | plan, fetch and trim, with the path rebound meanwhile | itself | `ClientReads_proofs` |
| `ConditionalWrite` | etags under all namespace handlers, several clients, a repeated request | `MCConditionalWrite` | `ConditionalWrite_proofs` |
| `Listing` | `op_list` and a client that pages to the end | `MCListing` | `ClientReads_proofs` |
| `Grants` | the gate, Share, owner grants, revocations and the clock | `MCGrants` | `Grants_proofs` |

Correspondence:

- **Durability.** A drive is the set of journal records applied to it.  Records are timestamped
  CRDT operations, so applying one twice, as a replay on top of a snapshot does, changes nothing.
  `Append`/`Apply` are the write-ahead steps of `SyncedDrive`, twice for a Write or Copy.
  `TakeState`, `SaveOk`/`SaveFail`, `ResetOk`/`ResetFail` are the three phases of
  `snapshot_drive`, with the lock needed by the first and the third only; `BeginCheckpoint` ..
  `CheckpointFail` hold it.  `lock` records a guard held across steps; a guard taken and dropped
  within one step only needs it free.  `Crash` clears what is in memory, `Boot` unions the files.
- **DurableStore** is the promise without files and tasks: records are put in order, a request is
  acknowledged when all its records are in, a crash takes back whole requests only, and only such as
  are at risk, and what is secured is no longer at risk.  `Durability` implements it with
  `store <- Stored` (what a client finds, or would find after the next boot; a record counts from its
  append on, before it is applied) and `atRisk <- raced` (what was journaled while a snapshot of its
  drive was between `to_state` and the reset, and is in no later state file).
- **MirrorSync.** The drive is a set of operations; those of the mutating handlers are also in
  `feed`.  `OpenSerialize` and `OpenPublished` are the two halves of `op_open`; while `pc = "put"`
  no other handler runs, because the loop is serial, but `Merge` may.  `Restart` brings back any subset of
  the drive, because a crash can lose what was acknowledged (`AckedDurable`, 5); `lost` is the history of
  what went, which only another device can bring back (`Merge`).  `Promised` is what the feed answers for:
  what was recorded, is in the drive and was never lost.
- **Replication** is what `feed.rs:34` calls gap-free and resumable, without cursors, pages and
  replies: what is recorded is appended to `due[m]` of every client that has bootstrapped since the
  host started; a page takes the next operations off it, as many as it likes, into the replica; a new
  bootstrap may skip some of what is due but takes nothing out of the replica that the drive still has; a restart
  cuts everyone off and may move operations from `recorded` to `gone`, which a replica may keep but is no
  longer promised.  `MirrorSync` implements it with `due[m]` the operations of the feed after m's
  cursor, `fed` the clients whose `born` is the present epoch, `recorded <- Promised`,
  `gone` the recorded operations in `lost`, and, of the replicas, what the feed records.
- **ServeLoop.** The `pc` values are the stages of `run`.  `Handle` is `handle_inbound` to the
  reply: a request counts as executed there.  Whether reading the inbox empties it is the node's
  affair; both are allowed.  `gap` and `deaf` are history: the requests and the topics that the round
  under way leaves behind.  A request gets into `gap` in three ways: the drain failed, it came between
  drain and stream, or its stream item was an error (`ItemError`, the `Err` arm of `serve.rs:377`).  A topic
  gets into `deaf` by a failed subscribe, or by a restart of the node between the subscription and the
  stream.  `Failing` names the calls that may fail: all of them, but in the run of `NeverMissed`.
- **RequestService** is the promise without node, inbox, stream and rounds: a request runs only when
  somebody sent it, and not again in the same life of the host unless more than `Cap` different ones
  have run.  `ServeLoop` implements it with `asked` the tokens of the requests sent, whatever became of
  the messages, and `times <- runs`.
- **PeerDiscovery.** One action per call and per branch; `Acquire`/`Release` stand for any handler.
- **CorpusCrawl.** `files[n]` holds the facts of `walk_facts` that `op_items` looks at; `ver`
  tells versions apart that have the same modification second, `doc` names the content.  `Collect` is
  the part of `op_items` under the lock, `Extract` one file's way through `extract_node`,
  `fetch_content` and `call_app`, `Reply` the rest and what the index does with the page.  While
  `pc = "page"` no other handler runs, because the loop is serial, but merges do.  `behind` is
  history: the files no crawl may look at again, each for a cause the property names.  The clock is the
  host's and may be set to any time (`ClockSet`); a merged file has the time of its own device, which may
  be ahead.
- **RangedRead.** Integers run to `MaxU`, which stands for 2^64 - 1, with `saturating_add`.  A plan is
  the set of its chunks; their offsets order them, and `Fetch` takes the earliest that is left.  The
  bytes of an object are pairs of the object and a place, so that a mixture of two objects shows.
- **ConditionalWrite.** The drive library is external: a name is bound to one node, and a write
  keeps it.  Ancestors and directories at a file's name are not modelled.  `op_write` is three steps, because
  it holds the host's lock but not other devices: the check of the etag (`Write`, `Refuse`, `Repeat`), the
  application when `add_file` gets to it (`Apply`, `ApplyFails`), and the reading of the new etag for the
  reply (`Reply`).  Merges (`MergeBinds`, `MergeRemoves`) come at any time; `crossed` is history and says
  that one touched the name between two of these steps.  The other handlers compare nothing before they
  await, so a merge comes before or after them.  `left` is an executed write
  that the node's inbox still holds, and `Repeat` its second run, after a restart of the host or a
  `seen.clear()` (see `ServeLoop`).
- **Listing.** Names are numbers in the order `ls` gives them.
- **Grants.** A path is the sequence of its segments as the request spells it: `PaddedUp` is a ".." with a
  blank at the outer end of the path.  `NoDotDot` looks at that, as `no_dotdot` does; `Norm` is the trim of
  `norm_path`, which turns it into "..", and `Within`, the prefixes and the handlers work on the result.  A
  `path_prefix` is a sequence too, led by `ce-drive` and the drive.  `Spelling` says which names begin with
  the letters of others; only a fault looks at it.  `Accepts` is `authorize_req` without the kind of
  refusal, `Passes` the gate of `dispatch`, with the revocations fetched anew or not at all; a refused
  request changes nothing.  A nonce is the pair that is hashed.

Definitions headed "Fault:" are plausible bugs.  They are in no next-state relation: each is put
in place of the definition after it to see that a property notices (`PROJECT.json`, "mutants").

## 3. Runs

| run | instance | question, and what it shows |
|---|---|---|
| `MCDurability` | 2 drives, a write of two records, 2 crashes, checkpoint every 2 ticks, counter mod 3 | an acknowledged request is on disk unless it fell into a snapshot (`AckedDurableOutsideSnapshot`); no file holds half a request (`SnapshotsWhole`); all a drive holds reaches state file and checkpoint and leaves the journal (`EventuallySaved`); what is acknowledged and safe is so for good (`SafeForGood`); all of it is the abstract store (`ImplementsStore`) |
| `MCDurabilityAcked` | 1 drive, a write and a mkdir | **violated**: `AckedDurable`, see 5 |
| `MCMirrorSync` | 1 client, 2 recorded, 1 metadata and 1 merged operation, limits 0 and 2, 2 restarts, each of which may lose operations | snapshot plus feed hold every recorded operation the host still has (`SnapshotThenFeed`); cursors do not run back (`CursorsAdvance`); a poll that moves no cursor means that the replica lacks nothing promised (`QuietWhenComplete`); a polling client catches up (`CatchesUp`); all of it is the abstract feed (`ImplementsReplication`) |
| `MCMirrorSyncCache` | as above, smaller | **violated**: `CachedSnapshotCurrent` |
| `MCServeLoop` | 2 requests on 2 topics, a message without a token, 2 breaks, a restart of node and host, every kind of call and stream item failing | drain and stream leave no hole but the three that the property names (`StreamCoversInbox`); an open stream is of a node that has the host's subscriptions (`HearsItsTopics`); what no round leaves behind is executed (`Answered`); all that runs is the abstract service (`ImplementsRequestService`) |
| `MCServeLoopGap` | 1 request, 1 break, no call fails | **violated**: `NeverMissed` |
| `MCPeerDiscovery` | 2 peers, one explicit, 2 drives | a failed call costs no other drive (`KnownFollowed`); the host follows itself only after a failed `status()` (`SelfNotFollowed`); every peer is tried (`EveryPeerTried`); requests get the lock (`RequestsServed`) |
| `MCCorpusCrawl` | 3 files, 2 of them there at the start, 3 paths, 2 changes, a clock that may be set to 1, 2 or 3, limits 0 and 3 cut to 2 | an item never mixes two states of a file (`ItemsOfOneState`); what the index lacks is still to be crawled (`CurrentOrDue`), and once the changes stop it is indexed (`EventuallyIndexed`), with the exceptions they name; a page that announces another moves the offset (`CrawlAdvances`) |
| `MCRangedRead` | sizes 0, 1, 3, 5, chunks 1 to 3, u64 cut to 6 | exactly the range, of one object (`ReadExact`), and no useless chunk (`NoChunkInVain`) |
| `MCConditionalWrite` | 2 clients, names, contents, milliseconds; 3 changes, merges and repeated requests among them | no lost update over a file but in the two windows with a merge (`NoLostUpdate`), no refusal without a change (`RefusedOnlyIfChanged`) |
| `MCListing` | 5 names with gaps, limits 0 and 2 | complete and without repetition (`ListingWhole`), and always onwards (`PagesAdvance`) |
| `MCGrants` | 2 holders, 2 drives, 5 paths, two of them with "..", up to 2 grants and 3 capabilities, clock 2, 1 revocation | what passes the gate is covered by a live grant, on the trimmed paths (`GateSound`), and what was shared can be used (`SharedUsable`) |

**Bounds, and why they are enough.** `MaxCrashes`, `MaxRestarts`, `MaxBreaks`, `MaxNodeRestarts`,
`MaxHostRestarts` and `MaxEdits` only bound the state space; the proofs do not use their values.
Two crashes let a crash hit a host that booted from a journal.  Two records are the most a request
has, and one write with two drives shows every race with the task (the loop is serial, so two
requests never overlap; the proofs take any number).  `TickWrap` 3 is, like 2^32 and 10, no
multiple of `CheckpointEvery`, so the wrap is visible.  Limit 0 and a limit that ends inside the
data show both boundaries of a page; a second page always exists.  Two breaks give a round that
follows a round with a gap.  `SeenCap` equals the number of tokens: the promise holds up to the
cap (past it, see 5).  In `CorpusCrawl`, two files of which one is written,
moved or removed and a third that appears give pages of one and of two files, a crawl of two pages, and
a change on either side of the boundary or during the extraction; three values of the clock let a device be
ahead of the host, and the host's clock be set back, with room on both sides.  In `RangedRead`, sizes
below, at and above a chunk's multiple, offsets up to `MaxU` and sums beyond it occur.  `ConditionalWrite` needs
two changes within one tick and a change back to an earlier content; three edits contain both, and also a file, a merge or another write
over it and a conditional write, first or repeated, on top.  Two restarts of `MirrorSync` let a
replica of one life meet a drive that has lost operations and got them back.  Three capabilities make a grant, a
share and a share of it, or two grants and a share; expiries 0, 1 and 2 stand in every order.

Deadlock is checked where the system must always be able to go on.  It is not for the serve loop
(idle on an open stream when all bounded events are used up), the crawl's and the conditional
writes' instances (they may end when edits are used up), and that of the capabilities.

## 4. Fairness

- *Durability*: a handler that holds the lock goes on; the task goes on; per drive, a save, a
  reset and a checkpoint tried for ever succeed at last (strong fairness: nothing is assumed of any
  one attempt).  Both are tokio tasks; tokio's mutex is first come first served, and the saving
  task cannot be starved of it.  New requests, crashes and boots are never forced, and
  `EventuallySaved` ends with the host's life.
- *MirrorSync*: an Open under way ends; a client keeps polling, and some reply gets through.
- *ServeLoop*: the loop goes on; subscribe, drain and open, tried for ever, succeed at last.
- *PeerDiscovery*: the task goes on; an advertising node is found again and again; the mutex is
  fair; handlers end.  Nothing is assumed of `add_writer` but that it returns.
- *CorpusCrawl*: the index keeps crawling, and each call to an app ends, by its timeout of 15
  seconds at the latest, with or without a text.  `EventuallyIndexed` is about drives that change no more from
  some time on (`ChangesStop`, a premise of the property and no assumption of the run): while files are added
  in front of another between all pages, that one stays a page ahead for ever, at a limit of 1.
- *Listing*: none.  A listing need not end, because a writer may bind a greater name before every page.

## 5. Where the code and its words differ

Three are shown by a run:

1. `AckedDurable`.  `snapshot_drive` lets go of the lock between `to_state` and `j.reset()`.  A
   request journaled, applied and answered in between is not in the saved state, and the reset
   removes it from the journal: until the next snapshot a crash loses it.  `serve.rs:653` says "a
   client holding an `ok` still holds a durable write".
2. `CachedSnapshotCurrent`.  `op_open` reuses its cached snapshot when the feed has not moved, but
   SetProp, Tag, Link and merges do not move it (`serve.rs:667`).
3. `NeverMissed`.  The inbox is drained before the stream is opened; what arrives in between waits
   in the inbox until the stream breaks (`serve.rs:343`).  No call fails in that run.

Others were met while modelling.  No run is given to them; the properties are stated so that they
do not depend on them:

- No handler writes the state file; only the periodic snapshot does (`README.md:30`, `README.md:55`
  say after every mutation).  The journal takes its place.
- After a restart the feed starts at 0, and a client that resumes with an old cursor misses the
  changes below it (`feed.rs:35`: "gap-free and resumable").  `ImplementsReplication` is about clients
  that bootstrapped in this life of the host.
- `seen.clear()` forgets requests that may still be in the inbox (`serve.rs:402`); the next drain
  runs them again, and so does a restarted host (`serve.rs:400`: "already handled this request token").
  Within a life of the host nothing runs again before more than 8192 different requests have
  (`ImplementsRequestService`).  Conditional writes do no harm then
  (`Repeat` in `ConditionalWrite`); unconditional writes and removals may undo later changes.
- A stream item that is an error is logged and the stream read on (`serve.rs:377`): its request waits in the
  inbox as well (`serve.rs:343`: "never missed").  `StreamCoversInbox` and `Answered` name it.
- What a crash loses by `AckedDurable` a mirror may already hold.  Nothing tells it (`feed.rs:35`), and the
  feed of the next life counts from 1 without it; `Promised` leaves such operations out.
- `add_file` is awaited after the etag was compared (`serve.rs:782`, `serve.rs:796`; `cedrive.py:670`:
  "the write is refused [...] if someone else wrote first").  The lock keeps other requests away and not
  other devices: an operation merged in between is overwritten although the client never read it.
  Likewise the etag of a `Written` reply (`serve.rs:797`) may be that of content merged just after the client's own, so that the client's next
  conditional write overwrites what it has not seen.  `NoLostUpdate` leaves these two windows out by name
  (`crossed`); without the first of these exceptions TLC finds the lost update in a few steps: `Write`,
  `MergeBinds`, `Apply`.
- A failed subscribe is logged as "retrying" (`serve.rs:362`) but tried again only when the stream
  ends; a node that restarts between the subscription and the stream leaves the host deaf without any
  failed call (`serve.rs:355`: this loop "used to reconnect and read from a node that no longer had us
  down as a subscriber").  `HearsItsTopics` leaves out these two cases and no other.
- Discovery is spawned before `announce` and `run` (`main.rs:103`: "SERVE FIRST, DISCOVER AFTER"); it
  runs beside them, so only its hold on the lock can delay a request.
- A peer whose `add_writer` failed is in `known` and not tried again (`main.rs:215`).
- Corpus pages are cut by offset from a new walk each: a file deleted before the offset makes the next
  page start a file too late (`serve.rs:463`, `corpus.rs:435` say filtering first avoids that results
  are skipped).  `CurrentOrDue` leaves such files out by name.
- `op_share` mints a capability of one link, rooted at the host, and not a link under the caller's:
  revoking the caller's capability leaves it valid (`README.md:82`: "strictly-attenuated
  sub-chain", "subtree kill").  `GateSound` therefore speaks of grants that have not expired, not
  of grants that are not revoked.
- The nonce of a share is derived from the caller and the path (`serve.rs:1289` says audience and
  path): shares of one path to several audiences, or on several drives, are revoked together.
- A Share that asks for no abilities gives `drive:read` also when the caller's capability lists
  `drive:admin` only; the properties count read among the rights of admin (`README.md:80`).
- `op_share` does not carry the quota ceilings over that `wire.rs:88` says attenuate.
- After another client's write and removal of a file, a conditional write is accepted
  (`cedrive.py:671`): there is no etag to compare with.
- A crawl with `since` trusts the clocks (`corpus.rs:164`, `corpus.rs:477`): one file from a device whose clock is
  ahead, or a host clock that is set back, puts the newest time seen above the times of later writes, which
  such crawls do not return.  `CurrentOrDue` leaves them out by name.
- `no_dotdot` is given the path before the handler trims it (`serve.rs:136` against `serve.rs:90`): the path
  "/docs/.. " passes and becomes "/docs/.." (`serve.rs:135`: "Reject `..` traversal in a path").
  `GateSound` says what is left: the trimmed path begins with the segments of the grant's subtree, and ".." can
  be its first or last segment only.  What the drive library makes of such a segment is not in the repository.
- Renames, metadata changes and the installation of a kind app leave the modification time alone,
  so a crawl with `since` does not return those files (`corpus.rs:21`; `corpus.rs:25`: "Install the kind
  app later and the same node becomes searchable by its content").  `CurrentOrDue` leaves them out.
- The lock is released before a page is extracted because holding it "would stall every other op on the
  drive" (`serve.rs:453`).  The serve loop is serial, so other requests wait all the same; only merges
  and the background tasks gain.
- The expiry of a capability is judged by the time before the revocations are fetched (`serve.rs:569`).

## 6. Proofs

`tlapm` checks each proof for all values of the constants under the modules' named assumptions
(`DurabilityAssumption`, ...), which TLC evaluates for each instance.

- **Durability_proofs.**  `TypeCorrect` with `Control`, which ties the mutex and the two program
  counters together.  `Durable` (`AckedDurableOutsideSnapshot`) and `ServedHoldsDisk`
  (`DiskWithinDrive`) need `DInv`: where the drive stands relative to the files (`Placed`,
  `DriveOnDisk`), what the image of a snapshot under way lacks (`InFlight`: only records in
  `raced`), how far the present request has come (`Progress`).  The properties alone are not
  inductive: a reset is safe only because of what the image holds.  `NoHalfRequest`
  (`SnapshotsWhole`) rests on `WInv`: a request not begun is nowhere (`Fresh`), of the one under
  way files hold nothing or, after its last record, all (`Running`), and an answered one is whole
  or absent everywhere (`Settled`).
  `HostIsDurableStore` (`ImplementsStore`) maps each step: an append is `Put`, a reply `Ack`, a saved
  state file `Secure`, a crash `Crash` of the requests with a record in no file, every other step a
  stutter.  It rests on `DInv` and `WInv`: what a boot puts back is what was served, less whole
  requests.  `AckedIsForGood` (`SafeForGood`) is then proved from the steps of the store alone
  (`StoreKeeps`): no file, journal or snapshot is looked at again.
- **MirrorSync_proofs.**  `TypeCorrect`, `BootstrapLosesNothing` (`SnapshotThenFeed`),
  `PollingSkipsNothing` (`NothingSkipped`) and `CursorsNeverRunBack` (`CursorsAdvance`).  The
  invariant says that seqs are 1, 2, ... (`Numbered`), that no reply or replica is from a later
  epoch (`Epochs`), and that every pair of a set of operations and a cursor - cached, being
  published, on its way, received - covers the promised operations (`OpenUnderWay`,
  `SnapshotCovers`, `RepliesCover`, `ReplicasCover`).  `PageCovers` is the lemma about one page.
  `QuietPollsAreComplete` (`QuietWhenComplete`) adds that a page with anything left to send moves the
  cursor (`QuietPage`), for limit 0 as well.  `FeedReplicates` (`ImplementsReplication`) needs more
  than that: `PagesExact` (a client of this life of the host has no late reply under way, and its
  page holds exactly the changes after its cursor), `OpensGrow` (what Open hands out has every
  recorded operation the client holds, but for lost ones) and `Known` (whatever is anywhere was in the drive
  once, and what is in the feed is in it and was never lost).
  `RestRecorded` and `RestSent` are the lemmas about the feed after a cursor, when a change is
  recorded and when a page is taken.
- **ServeLoop_proofs.**  `TypeCorrect`; `TopicsHeard` (`HearsItsTopics`), from what each stage of a
  round has subscribed; `RunsAtMostOnce` (`AtMostOnce`) from `Once`: with room for
  every token the set is never cleared, and a token outside it never ran; `InboxCovered`
  (`StreamCoversInbox`, with its three ways to be left behind) from `CInv`, which says stage
  by stage what of the inbox has run, is still
  in the batch, is on the stream, or is in the gap.  `LoopServes` (`ImplementsRequestService`) needs no
  room: `Forgets` says that the set is all that has run, or that more than `SeenCap` requests have run
  since the host started, and `AllKnown` that whatever the loop handles was sent.  The run of
  `MCServeLoop` keeps the set at its cap and not past it (past it requests run again and
  again, and the state space is infinite); what happens after the set was cleared is the theorem's.
- **ClientReads_proofs**, the listing.  `TypeCorrect` and `ListsWhole` (`ListingWhole`), for any
  directory and any mix of limits.  `Paged`: what was given is at or before the cursor, and what is
  steady and at or before the cursor was given.  The lemmas on pages rest on `GreatestExists` and
  `LeastExists` for sets of numbers.  `CursorAdvances` (`PagesAdvance`): a page with a cursor is not
  empty, and its last name lies after the old cursor.
- **ClientReads_proofs**, the ranged read.  `ReadTypeCorrect` (`ReadTypeOK`), `ReadsExactly`
  (`ReadExact`) and `FetchesNothingInVain` (`NoChunkInVain`), for any objects, chunk sizes, offsets
  and lengths up to any `MaxU`.  The exactness of the result is not inductive: `Fetched` says that the
  buffer holds the object's bytes from the plan's first chunk up to the next one to fetch, without a
  gap and in order, that the chunks fetched of the full plan (`Full`) end before that place (`Reached`)
  and those left begin after it.  `ManifestTiles` (the chunks lie end to end and end with the object, by arithmetic on
  div), `WantedInterval` (what a range with a saturating sum wants of an object) and `PlanCovers` carry
  the lemmas about `read_plan`.
- **Grants_proofs.**  `TypeCorrect`, `SharesStayNarrow` (`SharesNarrow`) and `GateIsSound`
  (`GateSound`), for any holders, drives, paths and expiries and any number of shares.
  `SharesNarrow` is inductive as it stands, because `Narrower` is transitive
  (`NarrowerTransitive`) and a minted capability is narrower than the one shown
  (`MintedNarrower`).  `GateIsSound` is about the trimmed paths (`Norm`).
  `PrefixParses` is the round trip of `drive_prefix` and
  `parse_drive_prefix`, `WithinIsPrefix` says that `enforce_prefix` is the prefix order.
  `SharesAreUsable` (`SharedUsable`) needs to know what every minted prefix looks like
  (`SharedScoped`): it is on some drive, and its path is the trimmed form of one that the gate let pass.
- **PeerDiscovery_proofs.**  `TypeCorrect`, `NoPeerDroppedHalfWay` (`KnownFollowed`) and
  `NeverFollowsItself` (`SelfNotFollowed`).  `Control` ties the peer at hand, the drives left and the
  lock to the place of the task; `SelfUnknown` says that the host is in `known`, at hand or followed
  only if the task believes its id to be the empty one.
- **ConditionalWrite_proofs.**  `TypeCorrect`, `UpdatesAreNotLost` (`NoLostUpdate`) and
  `RefusalsAreJustified` (`RefusedOnlyIfChanged`), for any clients, names, contents, timing and
  merges, with the windows that `NoLostUpdate` names.
  `EtagTellsContent`: equal etags are of equal contents.  `HeldRead` and `LeftRead`: an etag that a
  client, or a request in the inbox, holds is that of the content it was given with, unless a merge
  crossed it; `WritingKept`: while no merge touches the name, what the check found still holds when `add_file`
  takes effect, and what it put there is still there when the etag is read; `HeldFresh`: an
  etag is that of the name's present entry unless the name has changed since.  `CheckStep` covers the first run of a
  write and its repetition.
- **CorpusCrawl_proofs.**  `TypeCorrect`, `ItemsAreOfOneState` (`ItemsOfOneState`) and
  `CrawlForgetsNothing` (`CurrentOrDue`), for any files, paths, limits and any changes between and
  during the pages, whatever the clocks show.  Ranks are counted: `RankBound` and `RankStrict` say that the ranks of the
  filtered walk lie between 1 and its length and grow with the path, `PageSize` that a page never holds
  more files than its limit, so that the next offset is not past its files, and `NoSlide` that a file
  added, or written at its path with no time before the crawl's, moves no other file ahead back over
  the offset.  `Outdated` says of a file of the page under way that it is as it
  was collected, or `behind`.  `OffsetAdvances` (`CrawlAdvances`) rests on `RankOnto`: distinct paths
  give every place of the filtered walk exactly one file, so a page that is not the last one holds at
  least one.

Four invariants are proved and no longer checked by a run of their own, because a run would find
nothing that the property next to them does not: `DiskWithinDrive` (a crash that brought back more than
was served is no step of `DurableStore`), `NothingSkipped` (in `Replication`, what was recorded is in a
replica or due to it), `AtMostOnce` (the case of `RequestService` in which all tokens fit) and
`SharesNarrow` (a share that is not narrow passes the gate where no grant covers it: `GateSound`).
They are defined in the proof modules.

Only model-checked: liveness (`EventuallySaved`, `CatchesUp`, `Answered`, `EveryPeerTried`,
`RequestsServed`, `EventuallyIndexed`), which needs fairness and ENABLED, beyond the
prover.  Where a liveness property rests on a step that must make progress, that step is an action
property and proved: `QuietWhenComplete`, `PagesAdvance`, `CrawlAdvances`.

## 7. Not modelled

- *The capability verifier*: `ce_iam_core` is not in the repository.  `Grants` models what the gate
  asks of it for a chain of one link; chains that holders sign themselves, whose links it attenuates by
  a comparison of strings (`serve.rs:103`), quotas and `not_before` are left out, and nothing is
  proved about them.  The other modules start from requests that have passed the gate.
- *Wire types*: the declarations appear as the types of requests and replies; bincode is covered by
  golden tests and has no state.
- *Read-only metadata handlers, `op_watch`, the beacon*: no state changes; the beacon is a hint.
- *The registry map*: no behaviour of its own beyond what `Durability`, `MirrorSync` and
  `PeerDiscovery` hold; drives are opened at boot only.  *The command line*: argument parsing.
- *The clients*: encoding, HTTP and the choice of a provider.  `read`, `ls` and `write` of
  `cedrive.js` have the control of their Python twins and share their definitions.  After an error a
  client may find another host of the drive (`cedrive.js:276`), whose feed counts otherwise; the
  modules have one host, and the protocol names none in a cursor.
- *A host without a state directory*, and callers of the public `snapshot()` next to the task.
- *`ce_drive_core`, `ce-coord`, the node, the blob store*: not in the repository; modelled as the
  code uses them.
- *In the crawl*: how `item_from` merges titles, tags and links, which count as part of a file's
  version; the format of texts; and the default drive of a host with several.

## 8. Plan

Done: all modules of 2, with proofs of every safety property, and the refinements of
`DurableStore`, `Replication` and `RequestService`.

Next, as far as it goes:
1. Composition of the serve loop with the durability model, so that a reply that crosses a crash is
   seen end to end.  Today `Repeat` in `ConditionalWrite` takes over what `ServeLoop` shows.
2. A client that resumes with a cursor of another life, or another host, of the drive: a fault that
   `MirrorSync` leaves out by name, for want of a promise in the code.
