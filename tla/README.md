# PAUK: models, checks and proofs

PAUK collects publications, enriches them, keeps the rows in MongoDB and loads
them into a Neo4j graph that an admin panel lets people correct. This directory
holds TLA+ models of the parts of it where order matters, the TLC
configurations that check them, and theorems about them that TLAPS checks.
Paths below are relative to the root of the repository.

## 1. The system and what is hard in it

| Component | State | Operations | Hard | Correct when |
|---|---|---|---|---|
| Lock table `pauk/jobs/locks.py` | `job_locks`: one row per resource, a 15 minute lease | acquire, renew, release, taken, held | expiry, a holder that stalls, a release that fails | one process at a time works on a resource |
| Job queue `pauk/jobs/store.py` | `jobs` documents | enqueue, claim, start, heartbeat, requeue, settle, cancel, reap, give up | two workers, a cancel between two updates, a worker taken for dead | a job has one performer, ends once, and ends |
| Worker `pauk/jobs/worker.py` | the job in hand, the beat thread, SIGTERM | run_once, _perform, the parts of a job | death at any step, a beat that stops | it holds what it works on; it never loses a job |
| Job pages `pauk/admin/job_routes.py` | what a handler read | schedule, cancel, give up, repeat | a page older than the queue | a button never spoils a run that goes on |
| Manual decisions `pauk/graph/overrides.py`, `admin/nodes.py` | `overrides` documents, graph | edit, create, delete, restore, link, undo | graph and record are two stores; panels and publishes interleave | an active decision stands in the graph, a withdrawn one does not |
| Publish, prune `pauk/graph/load.py`, `jsonl_loader.py`, `prune.py` | rows read, tombstones, claims | load a group, replay decisions, delete leftovers | decisions taken while it runs | nothing a person decided is lost |
| Graph client `pauk/graph/client.py` | folded ids and lists on nodes | upsert, fold, delete, sync | lists that must agree position by position | a fold loses no fact |
| Review queue `pauk/storage/review.py`, `admin/review_routes.py` | review documents | held, disputed, verdict, choice, skip, split, undo | an answer and the fold it causes are several writes, without a lock | an answer holds for whomever people were folded into |
| Dedup, unmerge `pauk/graph/dedup.py`, `unmerge.py`, `pipeline/stages/dedup.py` | rows, nodes, rows kept from before a merge | group, fold, take apart | transitive merges across a refusal; folds in the rows, in the graph, from the panel | a person stands in one place with all of their works; whom an answer keeps apart is not joined |
| Publications and code `pauk/pipeline/stages/code_links.py`, `link_relevance.py`, `repositories.py` | links with evidence and a verdict, PDFs on disk, rows of repositories | search, judge, fetch, fold | partial failures, repeats, renames, folds between any two stages | no verdict without its evidence; one row per repository |
| People `pauk/pipeline/stages/persons.py`, `emails.py`, `departments.py`, `author_names.py` | persons, with a state per source | ask sources, read texts, match, split names | a source supplies the key of the next; every stage rewrites whole rows | nothing learned is lost, and what can be asked is asked |
| Accounts `pauk/pipeline/stages/repo_people.py`, `github_match.py`, `social_graph.py` | profiles, contributors, matches | harvest, match, walk | requests that fail midway, answers given under old ids | a refused account gives a person nothing |
| Prepared rows `pauk/storage/prepared.py` | rows shared by groups, with a version and revisions | read, write a whole set, upsert some | read, compute, update without a condition; overlapping groups | what is replaced is kept as a revision; a row goes with its last group |
| Pipeline `pauk/pipeline` | `_processing` status per row and stage | collect, normalize, enrich | failures halfway, repeats | a repeat does only what is missing |
| Sources `pauk/sources` | limiter state per host, sessions | request, redirect, retry, pause | threads waiting while limits change | a request starts within the limits, and ends |
| Map, cache, reports, pages, scripts | files and pages | build, export, show | little order | outside the scope, see section 6 |

The components meet in three shared stores. Worker, panel and command line
share the queue and the lock table in MongoDB; panel, publish and prune share
the decisions in MongoDB and the graph in Neo4j; stages share the prepared rows.
No operation spans two of these stores, so each interaction is a protocol of
separate steps, and those protocols are what the modules model.

`PROJECT.json` lists the hazards line by line, with the properties that would
show them going wrong.

## 2. Modules

### The job queue

```
JobLocks      leases over resources                     locks.py
  JobStore    documents, one operator per Mongo update  store.py, models.py
    JobPanel  the four buttons of the job pages         job_routes.py
      JobWorker   workers, terminals, the clock: the whole; properties
        JobInvariants   the inductive invariant
          MCJobs          instances for TLC
          JobProofs       theorems: types, performers, verdicts, locks, turns
JobTurns      what the queue promises (abstract)
```

A step of the model is one Mongo operation together with the local code up to
the next one. The state of the code and of the model correspond so:

| Model | Code |
|---|---|
| `lock[r]` | the row `_id = r` of `job_locks`; `age` is the time since `expires_at` was set |
| `inside[p]` | the `with held(...)` block process p is in |
| `job[j]` | the document j of `jobs`: what was asked for, state, heartbeat, cancel flag |
| `desk` | what a panel handler of several operations remembers between them |
| `pc`, `mine`, `part`, `outcome` | where a worker is in `run_once` and `_perform`, its job, the part of it, how that part ended |
| `stale` | what `reap_stale` read of the documents under way, each with its heartbeat of then, and how long it has been at that list |
| `seen` | the `taken` set `claim` is given |
| `silence` | the time since the beat last came round |

Choices a reader should know:

* **Time** is ages in whole steps: `Lease` stands for the 15 minutes of a lease
  and of `reap_stale`, `Quiet` for the 5 minutes of `give_up`, `MaxSilence` for
  the longest time a living worker goes without a beat, `MaxStall` for the longest
  one is held up over the list of a `reap_stale`. Ages stop at
  `Lease + 1`. What matters is the order `Quiet < Lease` and
  `MaxSilence <= Lease`, which the assumptions state and the proofs use.
* **`reap_stale`** reads the list once and then takes one document after another:
  each is judged by the clock of that moment on the heartbeat of the reading
  (`Overdue`), and settled in a step of its own if it is found quiet (`ReapOne`).
* **A process** is one life of it: a restarted worker is another element of
  `Workers`. Those in `Mortal` may be killed or told to stop at every step.
* **`InTime`** guards the clock: a worker with a job is never silent for longer
  than `MaxSilence`, a reaper is through with its list within `MaxStall`, and, unless `LongRuns`, work under a lock nobody renews
  (a run from a terminal, a collection of a pipeline) ends within a lease.
  Neither is enforced by the code; section 5 says what breaks without it.
* **The desk**: the panel's handlers are coroutines without an await between
  their Mongo operations, so one at a time runs in the panel's single process.
* **A job** is a number in the order of `created_at`. Fields only the page shows
  (actor, worker, progress, result, error, dates) and the presence marks of
  workers are left out.
* An error of Mongo outside `_perform` ends the worker as a kill does
  (`DieWorker`); an error while a part runs is `WorkFails`; a release that
  raises leaves its row behind (`LeaveLost`).

`JobTurns` is the abstract specification: a job is taken by nobody or by one
performer, once ended it is not taken again, and a resource is entered only
when free. `ImplementsTurns` maps the queue to it.

### Manual decisions, publish and prune

```
GraphStore      nodes and links, one operator per batch     client.py, mutations.py
  Overrides     decisions about nodes and links             overrides.py, decisions.py
    Publish     a publish and a prune, step by step         load.py, jsonl_loader.py, prune.py
      NodeForms the forms that correct the graph            nodes.py, decision_routes.py
        Curation     the whole, two observers; properties
          MCCuration      instances for TLC
          CurationProofs  theorems: types, what is on record, what a run does to it
```

A step is one query of Mongo or one batch of Neo4j.

| Model | Code |
|---|---|
| `node[n]`, `link` | the properties of a node, or `Absent`; the relationships there are |
| `doc[n]` | the document `node:<label>:<id>` of `graph_overrides`: operation, active, `created`, fields, `auto_value`, `source_value`, snapshot |
| `rel[l]` | the document `rel:...`: a deletion or a claim |
| `supply` | the prepared rows, the relationships they ask for, the rows whose enrichment failed, the publications completely extracted |
| `etl` | the publish or prune under way: where it is, the rows as read, what it read of the decisions, what it plans to remove |
| `todo`, `hand` | the list `apply_overrides` works through and the decision it is about to write, for the run and for the panel |
| `desk` | the form being handled: its next step, what it read |
| `asked`, `broken` | observers: what people were told is done; what was left half-way |
| `touched`, `late` | observers: what the panel was about since the run began, since it read the decisions |

Choices a reader should know:

* **One label, one kind of relationship** stand for all. A link goes from a
  publication to a repository, or to an address that is no repository's yet
  (`AddressOf`), and is of the kind a publish synchronizes. Once the repository's
  row arrives, the address is promoted: its links become the repository's and
  its node goes (step `Promote`), and claims on it count for the repository.
* **One form at a time**: a handler has no await after it has read its form, so
  the panel's single process finishes it before the next. `pauk admin overrides
  apply` counts as a form; the other commands of `pauk admin` do the same
  writes and are left out.
* **Look, then write** (`update_node`, `create_node`, `delete_node`): one step
  with every outcome the gap allows: a version conflict, a record that is gone
  or there by now, a record the write makes anew.
* **Withdrawing** is a read and an update in one step: only the panel changes
  what is read. `apply_overrides` reads a node and notes what it covers in one.
* **Mongo fails** before an update, between two, or after; that an update was
  made and its acknowledgement lost is not distinguished from the failure of
  the next one, and for the last update is left out.
* **An edit** changes one field. Values are few; `None` is a field emptied.
* The links of a publish are written in one step (`WriteLinks`). The code writes
  them in batches by kind, and may be cancelled between two.
* Left out: folds (modelled below, on their own), progress, the fallback of
  `deleted_fields` to the feed.

### Folds of people and the review queue

```
PairGroups        records that pairs connect (pure)          stages/dedup.py
  MergeGroups     which people become one (pure)             stages/dedup.py
Ordering          a finite set in order (pure)               sorted(...)
ReviewStore       questions and answers, per update          storage/review.py
  PersonFolds     nodes, rows, kept rows; one fold of each   client.py, person_merge_sources.py
    FoldRuns      dedup of a group, of the graph, the load   stages/dedup.py, person_resolution*.py, graph/dedup.py, jsonl_loader.py
      ReviewDesk  answer, skip, split, withdraw, undo        review_routes.py, mutations.py, unmerge.py
        Folding   the whole; properties
          MCFolding   instances for TLC
          FoldingProofs  theorems
MergeLemmas       lemmas on MergeGroups, on lines and their folds
```

| Model | Code |
|---|---|
| `row[p]`, `node[p]` | a prepared person, a `Person` node: `merged_ids`, the works, the ORCID; or `Absent` |
| `saved[p]` | `person_merge_sources`: the states of a row before merges, newest first |
| `review[q]` | a document of `review_pairs`: verdict, choice, `held_because`, skipped, disputed, resolved, applied |
| `rule` | which planner is at work, and what names, evidence and models say of a pair: merge, hold, separate, that the names are apart, that a record is pooled or of several people, nothing |
| `job` | the run under way: its step, what it read, what it plans |
| `desk` | the request in hand: its step and what `split_person` or `merge_nodes` computed |
| `crossed` | observer: a request that folds or undoes overlapped a run |

A group is folded by the stage `dedup` in its rows, all published groups by
`pauk dedup` in the graph, a pair by an answer in the panel; and a publish folds
whatever rows and graph say, since the rows bring duplicates back. Each keeps its
own lists of folded ids, and it is their agreement that the properties are about.

* **Works** stand for every list and edge a record gathers, the **ORCID** for
  every field a fold fills in and a conflict is about.
* **Pairs** come from the constant `Rules`; what the planner makes of one is
  `Says`. There are two planners, `plan_person_merges` and
  `plan_person_merges_resolved`.
* **ORCIDs** come in two kinds. `OnRecord` is what a row has; `Trusted` is what
  of it counts, for one that the fetched author record of the person
  (`Fetched`) does not have is not trusted. Groups conflict over trusted ones only
  (`Conflicts`), and the resolver separates over them; the plain planner refuses a
  pair over any on record (`Differ`).
* **An answer** may be sent from a page that is older than the last one, and then
  replaces it. That somebody skips a question or divides a group from such a
  page is left out.
* **A run and a request** may meet: no lock is between them. The model lets
  them, and the properties leave such states out (`crossed`), for the code does
  not hold them; section 5 says what happens there.
* Runs take the locks that section *The job queue* is about, so one is under way
  at a time. Its death is `Die`, between any two of its writes.

### Publications, links to code and repositories

```
StageRows         what a stage reads, writes and leaves      stages/base.py, prepared.py
  LinkHarvest     links, their evidence and verdicts         code_links.py, link_relevance.py
    RepositoryRows  repositories under their names           repositories.py
      Harvest     collect, normalize, folds of works; properties   collect.py, normalize.py, stages/dedup.py
        MCHarvest     instances for TLC
        HarvestProofs theorems
FoldLemmas        lemmas on folds over sets and on PairGroups
```

| Model | Code |
|---|---|
| `rows.publications`, `.repo_links`, `.repositories`, `.persons` | the collections of one group; of a person only what points at works and repositories |
| `found`, `judged`, `state` | `_processing` of code_links, link_relevance, repositories |
| `found` of a link | its occurrences: the PDF and the document that says it |
| `versions`, `listed` | the ledger of a folded publication: the records it is made of, and those entered with their authors |
| `files` | `PdfStore`: the PDF last kept for a record |
| `raw` | the collected works |
| `host`, `home` | GitHub: what a name leads to, what a repository is called |
| `job` | the run: its stage, and the writes still before it |

* **A stage** computes from what it read and then writes collections one after
  another (`WriteNext`); a death leaves what was written. Nothing else writes the
  group meanwhile, which is what its lock is for; collecting and renames on
  GitHub fall between runs, since a run has read them before its first write.
* **A text** is a constant set of links; **a model's reply** is any of `Replies`.
  A blurred mention is one whose spelling could be several links.
* **GitHub** keeps names: one that was given up leads on and is not given to
  somebody else, and a repository changes its name, not its owner.
* Among equals the code's order of dictionaries and dates decides; the model
  leaves it open (`Winners`, `Standing`, `PairsByKey`).
* Left out: whether a link is reachable, profiles of organisations, the full text,
  how sure a model is (so of two equal verdicts any reason may stay), what a ledger entry says besides its record and authors.

### People, accounts and requests

```
StageRows
  Researchers     persons, emails, departments; folds        persons.py, emails.py, departments.py, normalize.py
    Accounts      harvest, match, walk                       repo_people.py, github_match.py, social_graph.py
      StaffRule   employees and namesakes                    stages/dedup.py
StaffCatalog      names of the staff (pure)                  author_names.py
NameParts         the guards on a split name (pure)          author_names.py
  AuthorNames     the pool of threads that asks a model      author_names.py, llm.py
HostLimiter       what a host allows                         rate_limit.py
  HttpCalls       attempts, redirects, pauses                base.py, github.py
People            the five parts; properties
  MCPeople          instances for TLC
  PeopleProofs      theorems on names and limits of hosts; one row at a time
    PeopleStageProofs theorems on rows, stage by stage
```

| Model | Code |
|---|---|
| `rows.persons` | persons; `openalex`, `orcids` are a source's state and the key it was asked with |
| `rows.profiles`, `.repositories` | `github_profiles`; of a repository its papers, contributors and `repo_people` state |
| `walk` | the rings of `SocialGraphStage` |
| `names`, `asks` | the parts of a name saved, and the questions the thread pool is at |
| `hosts[h]` | `_HostState`: gap, ceiling, `next_at`, `paused_until`, `last_started`, `in_flight` |
| `calls[t]` | the request of a thread: where in `_request`, `_send`, `slot`; attempt, redirects, answer |
| `quiet[h]` | observer: what is left of the quiet a host asked for |

* **Parts**: a behaviour moves one of them (`part`), which multiplies nothing; the
  last two share no state with the others.
* `persons` saves after every request, so its model is a step per request and a
  death between any two. The other stages write at their end.
* **What sources say** is constant during a behaviour; that they answer, fail or
  answer in part is not. A page of GitHub about an account is any of `UserSays`,
  so that what it says may change from one reading to the next.
* **Names**: `raw` is the spelling in force, which OpenAlex replaces by its own;
  `names` are the alternatives, which only grow. Of a profile what it is called and
  what it says of itself (`name`, `about`) are replaced by what a later page says,
  while addresses and the names of commits are added.
* Crossref gives two upserts, of the publication and of its authors;
  `DieInCrossref` is a death between them.
* **Moments** in the limiter are kept as what is left of them, so time has no
  bound. A thread waits on the host's condition for a time or for a notice.
* **Answers** about accounts may be given at any moment, before the question is
  asked too; choices of a record once it is.
* The catalog may or may not be on the machine a run is on (`CatalogAtHand`).
* Pair questions of `dedup` are in the section on folds; here only what the
  catalog adds. Two names that resemble each other, and conflicts of initials,
  are the constant `Resembling`.
* Left out: runs selected by person, parsing of what sources send.

### What is left of the plan

All modules of the plan are there. Theorems to come: `ClaimsFollowVerdicts` of
`Harvest`, on the two passes of a fetch; of `Folding` what of `OneSurvivor` and
`WorksFollowPeople` a single fold in rows and graph keeps, and whether
`AliasesStand` (section 4) can fail with four people or more.

A component with theorems keeps them in modules of their own.

## 3. Runs

| Run | Instance | Question |
|---|---|---|
| `jobs_crashes` | two workers, one mortal; pipeline and publish jobs, two at most; releases may be lost; a reaper held up for up to two thirds of a lease | Is work exclusive and locked, is a job performed once, is only a dead worker's job reaped? Also checks the inductive invariant of the proofs |
| `jobs_buttons` | one worker and one terminal, both mortal; two collect jobs; all four buttons | Do the buttons, pressed at any moment, respect verdicts, cancels and running jobs? Does the queue implement its turns? |
| `jobs_end` | two workers, one mortal; publish and health jobs; fairness | Does every job end, also one whose worker died? |
| `decisions_fields` | one record with two fields; three forms that may fail half-way; one publish; rows that change or go | Is what people were told is done on record, and does it stand when a publish ends? Does a publish bring back or remove a record against what was asked? Also checks the inductive invariant of the proofs |
| `decisions_links` | two publications, a repository and its address, links between them; two forms; one publish or prune; three supplies, one with a failed row | Do unlinked links stay away, and is nobody's claim cleaned up, also when the address it was made on is promoted? |
| `folds` | three people with a work each, two of them of differing ORCIDs, one of which may be untrusted; to the plain planner everybody one, or a record of several people; to the resolver a pair to merge beside one to ask about, a pooled record or a namesake; four runs of any kind, two of them mortal; three requests | Is a person always in the graph, in one place, with all of their works? Does a plan hold together, and does a run respect the answers it read? |
| `harvest` | two records of one work, two spellings of a repository's link, one repository that is renamed once; five runs, the first mortal, from the fourth on perhaps forced | Do verdicts, evidence, references and claims stay true to each other whatever order the stages run in? |
| `people` | three people, two works, four accounts, four repositories; three runs, the first mortal, from the third on perhaps forced, selected or not; catalog of four rows with namesakes; two name runs over three authors; two threads, two hosts, one retry, one redirect | Is nothing that was learned lost, do answers hold, does a stage ask what it can ask, does a split of a name stand through later failures, do requests keep the limits and end? |
| `says_group_held` | one worker, one pipeline whose collection outlives a lease | Expected violation, see section 5 |
| `says_planning`, `says_withdrawn`, `says_not_saved` | the smallest instances that show it | Expected violations, see section 5 |

Two jobs and two workers are enough for every pairwise race: a job taken twice,
a lock taken over, a verdict on another's job; the third party (panel or
terminal) is present where it matters. `Lease = 2`, `Quiet = 1` give the three
classes of age the code tells apart: fresh, quiet, expired. `jobs_crashes` has
`Lease = 3`, `MaxSilence = 1` and `MaxStall = 2`, the most a reaper may be held up
for its verdicts to be right (`MaxSilence + MaxStall = Lease`): what it reads of a
living worker may be a step old and is judged up to two steps later. With
`MaxStall = 3` in that file TLC shows a living worker's job reaped.

Three forms about one record reach every order of an edit, a deletion or a
creation, its withdrawal and a further form; one publish with the panel free to
act between any two of its batches is every overlap of one form with it. The
two fields tell a merge from a replacement, and are symmetric. Properties about
a publish exclude the records a person touched while it ran (`touched`, `late`):
for those the code promises nothing before the next publish.

Three people are the fewest with a chain, that is with a fold that reaches
somebody nobody compared; four runs let each of the three kinds follow another,
and one more publish show what they left. Two records, two links and one
repository let every fold of `harvest` happen at once: of works, of their links,
of rows that turn out to be one after a rename. In `people` three runs are a first one,
its repeat and a forced or selected one; two threads are one that waits and one
whose answer changes what it waits for. The bounded instances stop when their
runs and requests are used up, so their deadlock check is off. The state spaces
of `folds`, `harvest` and `people` have 1.7 million, 800 thousand and 340 thousand
states.

In `decisions_links` one publication or the other mentions the address, while the
repository's row is missing, failed or there: a claim made on the address or on the
repository meets a publish before, at and after the promotion, with the mention
there or gone. It has 530 thousand states; with forms that
may fail half-way, as in `decisions_fields`, 1.8 million, with the same result.

**Fairness** (`people`): a thread goes on and time passes, weakly; a stage or a
name run may stop for ever. That a thread goes on includes that the answer to its
request comes, which the timeout of every request (`request_timeout`) sees to. A
request counts as ending with its last answer or its failure.

**Fairness** (`jobs_end`): each worker's loop goes on (it polls for ever), the
beat comes round, a terminal's run returns, the panel finishes a handler it
began, time passes. All are weak: none of these waits for a condition another
process can take away again and again. Nothing is assumed of the mortal
worker's survival: its death disables its loop.

## 4. Proofs

### The job queue

Every theorem holds for any finite or infinite set of processes, any number of
jobs, any groups, requests, buttons, lease, `Quiet` and `MaxSilence` that meet
the named assumptions (`LocksAssumption`, `StoreAssumption`, `PanelAssumption`,
`WorkerAssumption`).

The invariants of interest are not inductive alone: that two processes do not
share a resource depends on a lock outliving the work under it, which depends
on the beat. The inductive invariant `QueueInv` (module `JobInvariants`) adds

* `Shape`: types, and what each place in the loop implies for the job in hand;
* `LocksFresh`: whoever is inside a resource owns its row, and the row is not
  older than the silence of its owner (or, for work nobody renews, than a lease);
* `BeatsFresh`: the heartbeat of a job in hand is not older than that silence;
* `ReadIsFresh`: what a `reap_stale` under way read of a document that a worker still
  performs was not older than `MaxSilence` then. It says nothing of the moment the
  document is judged.

`TypesHold`, `OneWorkerPerJob`, `WorkIsLocked`, `WorkIsExclusive` follow from
it; `EndedStaysEnded` needs no more than the guards of `Settle` and types;
`ReapSparesTheLiving` is on a condition: where
`MaxSilence + MaxStall <= Lease`, a heartbeat that was fresh at the reading is not
overdue at any verdict (`ReadIsFresh`); without it the property fails (section 5); `GiveUpSparesTheLiving` adds what the
panel read (`GivenUpAreGone`); `AskedInTimeIsNotDone` adds that a worker whose
job carried a cancel request when claimed is headed for a verdict other than
done; `QueueImplementsTurns` is the step by step refinement of `JobTurns`.
`WorkIsExclusive` and the theorems on it assume `LongRuns = FALSE`, as
the run does where it matters.
`QueueInvHolds` states the whole invariant.

### Manual decisions

These theorems hold for any records, relationships, fields, values and prepared
rows and for any bounds that meet `GraphAssumption`, `PublishAssumption`,
`AddressAssumption` and `FormsAssumption`: relationships join records, what can link
to an address can link to its repository, which is no address itself, the
stand-ins for what is not there are no values, rows are well formed. Nothing is assumed of failures.

`CurationTypes` needs more than types. `apply_overrides` replays an operation
that the document names, so `TypeInv` adds that an active document names one
(`Written`) and which forms can be at which step (`DeskShape`).

`NothingIsLost` speaks only of records that no handler is at, so it says nothing
while a handler goes from the graph to the decision and on to its answer. The
inductive invariant `RecordInv` says what holds in between:

* `DocShape`: an active decision says something, and a deletion that was
  withdrawn left no fields behind; so a restored record has lost no edit;
* `FieldsKept`: what was asked of a field is in the document, but for the field
  an edit under way may have overwritten already. This is why a failure half-way
  must make the model forget what was asked of those fields and of no other;
* `Progress`: the handler has touched nothing yet, or its own fields are in the
  document, or the deletion it withdraws is gone, by the step it has come to.

The proof has a lemma per way a handler can go on or end (`SendFacts`, `ToFacts`,
`TurnedDownFacts`, `LeftBrokenFacts`, `DoneFacts`), one per update of the
document (`RecordFirstDoes`, `WithdrawDoes`, ...) and one per action that makes
such an update. The run and the sources matter only through `CoverDoes`: they
change nothing of a decision but the value an edit covers.

What a run does to decisions rests on `RunInv`: what the run has read of them, it
knows of still, but for what somebody moved since. Its parts follow the run:

* `Dropped`: the rows of what was deleted by hand are no longer among those to be
  written; `NotRecreated` (`DeletedStayDeleted`) follows;
* `ClaimsKnown`: what is claimed is among the claims as long as they are consulted,
  and not among what is doomed, whence `ClaimsAreSpared` (`ClaimsStay`);
* `Promoted`: the repository of a candidate has been written before the candidate
  goes, whence `RemovedOnRequest` (`OnlyWhatWasAsked`);
* `OrdersCurrent`, `Carried`: what is left to replay says what the documents say,
  and what does not stand yet is left to replay. The list only shrinks by what then
  stands, so at the end everything does: `PublishedStands` (`DecisionsStand`).

A form disturbs these only for what it moves, which `touched` and `late` name.

### Publications and repositories

The theorems of `HarvestProofs` hold for any works, texts, spellings, answers of a
model, names on GitHub and bounds that meet `HarvestAssumption`, `RowsAssumption`,
`RepositoriesAssumption` and `GroupAssumption`: works and links are finite in number
(rows of one group), stand-ins for what is not there are no rows, and the rows of
repositories at first are as an import by hand leaves them
(`scripts/import_curated_repos.py`): of papers of the group, just fetched, under one
name. `MaxRuns` is any number.

A run reads everything and then makes up to seven writes, any of which may be the
last before it dies. The invariant `HarvestInv` therefore speaks of the rows and of
the writes still to be made:

* each table by itself, written or to be written: a link that was judged was judged
  on all of its evidence, evidence in a PDF is a mention in it, the survivor of a
  fold has the ledger it must have and no two rows have swallowed one id (`LinkTables`,
  `PublicationTables`). `NothingUnjudged` follows, wherever a run dies;
* `WholeInv`: once all is written (`Becomes`) what counts as judged is judged and
  works have authors, and ledgers are whole at every write. This needs that no
  run was torn, and so does `CompletedIsJudged`;
* `Resolves`: a write only names what can be found before it or by then, and what
  can be found before a write can be found after it. So an order of writes in which
  references move before what they refer to breaks it; `ReferencesResolve` is its
  reading, with `OneOwner`;
* `KeepsEvidence`: a run writes links at most once and takes no evidence away that is
  still on disk, hence `EvidenceKept`;
* `GitHubInv`: all names of a row, its id, its address, those it is cited by and has
  swallowed, lead to one repository on GitHub; so rows of one repository meet in one
  group of the fold, however far apart their names are, and `OneRowPerRepository`.

`StartStep` reduces a stage to what its list of writes leaves (`Leaves`); `WriteStep`
and `DieStep` are proved once for all stages. A stage is then a lemma on each table
it computes (`FoldedPapersSay`, `RepointedSays`, `RekeyedSays`, ...) and one on the
order in which it writes them.

A stage folds many records into one with `FoldSet`, and what is one with the
components of `PairGroups`. Both are recursive functions. `FoldLemmas` proves the
inductions they need with sets in the place of predicates: a set of naturals that
holds zero and each next number holds all (`AllNaturals`), one of subsets that
holds the empty set and grows by the element picked holds all (`AllSubsets`). From
these it has that such a function exists, that what holds of the first value and is
kept by each step holds of the fold (`FoldReaches`), and that components are
closed and apart from each other.

### Folds of people

The theorems of `FoldingProofs` hold for any finite set of people and of works, any
ORCIDs, rules, questions and answers, any choice of tasks and requests and any
bounds that meet `FoldAssumption`, `RunsAssumption`, `ReviewAssumption`,
`DeskAssumption` and `FoldingAssumption`: people are finitely many and their ids
ordered, what stands for no record, no ORCID or no verdict is none, every pair and
every group of people has its question. Runs may die anywhere, and requests may fall between any
two steps of a run unless the property says otherwise.

The invariant `FoldInv` is what the records, the run and the request know of each other:

* `JobFits`: the plan a run carries fits the records it was made of (`Fits`): it folds
  records that were there, each once and into one that is not folded itself; and it
  brings no two together that an answer it read keeps apart or whose trusted ORCIDs
  differ (`KeepsApart`), by either planner. `PlansKeepApart` is its reading. That a plan is like this is a
  fact about `MergeGroups` (`PlannedFits`): its groups are components of the pairs
  that merge, taken apart where they conflict and left alone where they contradict
  an answer (`AcceptedParts`, `FoldsLead`, `DifferConflicts`). Of ORCIDs that are not
  trusted it says nothing, for there the code does not keep people apart (section 5);
* `Queue`: only questions about pairs are ever marked as carried out. Without it an
  undo could begin for a group, of which it cannot say who returns;
* `DeskFits`: a request that folds or undoes has a pair in hand, two people who are
  not the same, and one that divides a group has answers left to write.

`TypeOK` needs all three. That a record stays a record through a fold needs what a line of
folds, one after another, leaves: `MergedAll` says it gathers the names and works
of everybody folded and nothing else, by induction over the line. `SourcesAre` and
`SurvivorIs` say of an undo that what it rebuilds a survivor from are rows there are.

The lists of the graph lead from person to person, and `flatten_merges` follows
them. `WalkGrows`, `WalkIsWithin` and `WalkCloses` say of that walk that it
stays within whatever the lists do not lead out of, and that as many steps as there are
people suffice to close it. Hence lists that resolve lead everybody to one end
(`EndsAre`), and flattened ones are flat and lead nowhere further (`FlattenedFlat`,
`FlatResolve`).

`NobodyGoesMissing` is on `NobodyIsLost`. A fold removes records; nobody is lost by it if
each of them is named by another first (`FoldKeepsAll`), for a name is carried on by
whoever swallows its holder. `LossInv` says that this is so when a fold comes:

* a run on the graph has named all it folds (`GraphFits`), as has a request (`DeskNames`);
* a load has written the rows' own names before it folds by them, and nothing it
  wrote took a name away (`Grows`).

The second fold of a load, by the lists of rows and graph together, is the one
step for which this is not enough. The graph's lists may chain: d is named by x and x
by e, as runs leave it that died between naming and folding at different times. If
e has no row to be given d's name in, and the rows fold x into d, then the first
fold takes x away and the name of d with it, and the second folds d into e, which
does not name d. `NobodyGoesMissing` therefore says that no step but this fold
loses anybody, without a condition; and `NobodyLostWhileAliasesStand` says that
nobody is ever lost if no load finds lists of this shape (`AliasesStand`).
`AliasesStand` is not proved. In the instance of `folds` it always holds; but with
three people lists of this shape go round in a circle with the rows' and stop the
load, so that the instance says little about more people. We know of no way for the
program to come to such lists, nor of a reason it could not.

### Names and requests

`SplitsStandThrough` holds for any authors, replies, dictionaries and numbers of repeats
that meet `AuthorNamesAssumption` and `SplitAssumption`. It is about steps: parts, flat
name and degree change only together with an answer that counts as completed and whose
parts are whole, so a repeat that fails leaves what an earlier run wrote. The invariant
under it, `NamesInv`, says that a row, and an answer held back while another author
is asked about, is whole or empty: what the guards of `NameParts` leave of any reply is.

`LimitsCovered` and `RequestsStartInLimits` hold for any threads, hosts, limits,
replies, retries and redirects that meet `LimiterAssumption` and `HttpAssumption`.
The invariant `HttpInv` says that the limiter's notes cover what they stand for:
`flying` is the number of requests under way, a pause lasts as long as the
quiet that was asked for, the next start is as far from the last as the gap in force
(`HostCovered`); and that a thread at each step holds what that step needs
(`CallFits`). It survives that another answer changes gap, ceiling and pause between
a thread's look and its start, because `slot` looks and counts under the lock of the host.

### People and accounts

The theorems of `PeopleStageProofs` hold for any authors, works, accounts,
repositories, catalogues and employees, any answers of the sources, questions,
rings, selections and bounds that meet `ResearchersAssumption`,
`PlacesAssumption`, `AccountsAssumption`, `StaffRuleAssumption`,
`ReviewAssumption` and `PeopleAssumption`: a group has finitely many rows, ids are
ordered, sources answer with what their rows can hold, and the rows at first are
rows the code could have written: nobody present is named as folded, or by two
(`FoldedOnce`), and collected repositories have profiles (`Leads`).

As in `Harvest` a run reads, computes, and has writes before it, one of which may be
its last. The invariant `AllInv` speaks of rows and of those writes:

* `RowsInv`: types and `FoldedOnce`; the writes come in an order their stage can have
  (`Lined`); and each keeps what the rows hold *now* (`Suits`). `NothingIsTakenBack`
  is a reading of it, once it is known what "keeps" means for a fold: the survivor
  gathers what its duplicates had and names them all (`FoldedRow`, `GathersLine`), and for
  what sources replace: the spelling in force and what a profile says of itself give way
  to what the source says and to nothing else, and never to nothing. The replaced
  spelling itself may be gone, for `persons.py:283` keeps it only if OpenAlex lists
  it too. That
  a write keeps what was there survives the writes between it and the reading, for
  they add (`PersonsFollow` and `ProfilesFollow` compose);
* `AskInv`: what has been asked with another key than the row holds by now is going to
  be asked (`WillAsk`). A source that supplies the key of another comes before it,
  which is the invariant's third part and what a wrong order of the three sources breaks.
  `AskedForWhatItHas` is the reading with nothing left to do;
* `LeadInv`: between the two writes of `repo_people` the repository already names its
  contributors, whose profiles are in the write to come; `torn` notes a death there.

Each stage is a lemma that what it computes suits the rows (`...Begins`), writing
one of the entries is proved once for all stages (`...Goes`), as is what a step that
writes nothing leaves (`Stays`). `MergeLemmas` has what the stages need of the operators: that
`Ordered` lists a finite set without repetition (`LineIs`, `LineHoldsAll`), that
`Canonical` is one of its group (`CanonicalLeads`), that the groups of a plan are apart from each
other and hold no pair an answer keeps apart (`AcceptedParts`), and that each of
their folds leads to a record that is not folded itself (`FoldsLead`).

### Only model-checked

Liveness (`EveryJobEnds`, `RequestsEnd`), which is out of
reach of the prover, and for now:

* of folds: `OneSurvivor`, `WorksFollowPeople` and `RefusedStayApart`, whose
  invariant has to say how three kinds of folds, their undoing and a publish agree on
  who is in which record; and `AliasesStand`, the condition of a theorem above;
* of publications: `ClaimsFollowVerdicts`, which relates two tables across a run;
* of people: `AnswersStand`, which relates the verdicts of two stages to the answers
  at the moment each was read.

## 5. Where the code and what is said of it part

Four runs show a disagreement.

**`says_planning`**: `prune.plan` says that planning changes nothing. It replays
the loader against a client that keeps five kinds of writes to itself and
forwards every other call, and the two synchronizations of relationships are
among the others. A rehearsal thus removes relationships the rows no longer ask
for, and since it is given no claims, claimed ones too.

**`says_withdrawn`**: undo switches a decision off and keeps its fields. The
next edit of the record, of any field, adds to them and switches the document
on, so the value somebody withdrew is applied again.

**`says_not_saved`**: a decision takes up to two updates and one per automatic
value. When Mongo fails after the first, the graph is put back and the person
is told that nothing was saved, while the decision is active and the next
publish carries it out.

**`says_group_held`**. `runner.py` says a run
holds its group's lock throughout; the beat of a pipeline renews `job.resource`,
the graph, and nobody renews the group its collection is inside of, so a
collection of more than 15 minutes may be joined by another one.

Others were met while modelling and are described by the model without a run:

* `reap_stale` settles runs whose worker "stopped answering" (`store.py:208`). It
  reads them once and asks of each, when it comes to it, whether the heartbeat it
  read is a lease old by then (`store.py:226`). A worker held up for about a lease
  before the first of them, or over one it settles earlier, settles the job of a
  worker that has beaten all the time. `MaxStall` bounds how long it is held up;
  raised to 3 in `jobs_crashes.cfg` it shows the case.
* A publish from a terminal holds the graph for one lease and has no beat
  (`load.py:92`); past 15 minutes a worker's publish may start beside it. The
  instances with `LongRuns = FALSE` exclude it.
* `request_cancel` updates queued jobs first and those under way second. A job
  requeued between the two is matched by neither, and the page is told it
  has ended although it waits (`store.py:162`).
* A pipeline is claimed by the graph alone (`store.py:87`): with its group busy
  it is taken, turned away and put back, over and over, until the group is free.
  Two workers with two such pipelines can pass them back and forth.
* A lost release leaves a row that the same worker may renew with the beat of
  its next job; only `LostRelease = FALSE` makes `jobs_end` terminate.
* A decision made while a publish replays them may be overwritten with the one
  it replaces, until the next publish (`overrides.py:359`); the value it had is
  noted as the source's, and an undo then gives that back.
* A claim made while a publish or a prune runs does not protect from that run
  (`load.py:123`, `prune.py:205`).
* A promotion consults no decision (`client.py:293`): a link to an address that
  somebody removed is not kept away from the repository, and an address that was
  edited or claimed goes all the same. A claim stands under the address's name, so
  once no text mentions the address the promoted link is cleaned up, and so it is when
  the repository is deleted by hand between the writing of nodes and the promotion.
  `ClaimsAreSpared` excludes these two.
* Over a withdrawn deletion an edit reads as an active deletion between its two
  updates (`overrides.py:169`).
* `give_up` spares workers that beat; one that lives but is cut off from Mongo
  for five minutes is settled over its head, and its own verdict is then
  refused (`store.py:258`).

On folds and the review queue:

* Answer and undo take no lock. A publish between the two writes of an undo
  finds a record neither folded nor there and may fold it back; a request that dies
  between them has taken the name off the survivor and not given the record back
  (`unmerge.py`), until a publish brings it.
* `merge_rank` says that panel and dedup fold a pair the same way round
  (`dedup.py:213`). A pair is ranked by the works of its moment: the panel may fold
  2 into 3 where a group's rows fold 3 and 1 into 2. Aliases then go round in a
  circle and every later publish stops with an error.
* `merge_nodes` reads `merged_ids`, adds to them and writes them in separate
  transactions (`mutations.py:426`): an id added in between is lost.
* Refusals are held against the pairs of one run. The load of a publish reads no
  answers and joins whom rows and graph between them connect.
* Conflicting identity fields, says `docs/architecture/pipeline/dedup.md:65`, cannot
  be bypassed through a third person. The plain planner refuses a pair of differing
  ORCIDs whatever they are worth (`dedup.py:368`), but a group conflicts over trusted
  ones only (`dedup.py:743`): with one of them untrusted, the two are planned
  together through a third that may join each. `PlansKeepApart` speaks of trusted
  ones; with `OnRecord` in the place of `Trusted` the instance of `folds` breaks it.
* Two answers under aliases of one pair: the one read last counts (`review.py`).
* An undo leaves `applied_at` standing until its second update, and restores an
  archived row while another row may aggregate the same person.
* Without the catalog of the staff on a machine the choices made with it no longer
  keep people apart (`dedup.py:1366`); "none of them" is asked again on every run
  (`dedup.py:818`); a choice of a record is stored under an id that changes with the
  catalog (`author_names.py:351`).

On publications and repositories:

* `docs/full-run.md:128` says an interrupted stage leaves no partial result. Its
  batch is several collections in a row: `CompletedIsJudged` and the ledger need
  `~job.torn`. It also counts `repo_people` among the stages that write as they go.
* A fold that completes the survivor's judgement while the duplicate's had failed
  leaves `code_url` as it was: nobody recomputes it (`link_relevance.py:188`;
  `code-links.md:252` says it holds the relevant links). A survivor that was
  never searched inherits that its duplicate was (`dedup.py:988`).
* A death between the fold of works and the repointing leaves a row of links
  under an id that is an alias only; a death between the writes of `normalize`
  leaves ledger entries without authors until the next dedup.
* A README that cannot be read sets URL and id of a repository and not its owner,
  so that it is not re-keyed; a renamed repository is fetched on every run; a name
  that GitHub gives to somebody else would fold two repositories.
* `PdfStore.save` says a death between file and pointer makes the next run save
  again (`pdf.py:36`); the next run looks at the file, not at the pointer.
* Groups share documents while locks are per group: one group's normalize
  may create anew a work another group folded, and whole-row writes of two groups
  undo each other (`prepared.py:174`).

On people and requests:

* `emails` marks publications as read before it writes the people: a death in
  between loses the addresses. `repo_people` does the same with profiles
  (`repo_people.py:173`), and `persons` with the ORCIDs of a Crossref answer
  (`persons.py:259`).
* `github_match.py:406` says that two runs over the same data reach the same
  decisions; equal candidates are taken in the order of a set.
* An account refused later stays in `person.github`; an answer "same" counts only
  while that author is the best of the account.
* `social_graph.py:153` builds a known profile without the mark that it was
  fetched, so it is fetched again.
* A spelling of a name that OpenAlex replaces and does not list is lost
  (`persons.py:283`).
* Departments found empty are not matched again when affiliations are added.
* A request that begins at a host without limits follows redirects unadmitted
  (`base.py:140`). The limiter keeps no order among those waiting. GitHub has no
  limit of its own there; a 403 pauses one thread.

## 6. Not modelled, and why

The table of components in `PROJECT.json` carries a note for each part.
Formatting, layout, statistics and texts have no protocol to check. The Cypher
of the graph client and MongoDB itself are external: an update of one document
is atomic, a batch of writes is not. Scores and models that decide whether two
records are one person are data: models take the decision as given. What OpenAlex,
Crossref, ORCID, GitHub and the language model say is data as well; that they
fail or answer in part is modelled.

Several groups over the same rows are not modelled: their locks do not exclude
each other, and there is no promise to check. Nor are revisions and their
trimming, the folds of publications and repositories in the graph, and the stages
run for selected people.
