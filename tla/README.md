# Verification of figma-to-fgui

TLA+ models of the parts of figma-to-fgui that keep state: the job service,
the local apply transaction, the Windows agent, Figma pairing, the upload of
selections and of projects, the conversion of one into the other, and the Figma
plugin.  TLC checks them on small instances (`*.cfg`), and TLAPS proves
theorems about each of them for all instances (`*Proofs.tla`).

    tlc -workers 2 -config JobStore.cfg JobStoreMC     # check a run
    tlapm JobStoreProofs.tla                           # check the proofs

`PROJECT.json` lists the runs, the source lines each definition models, the
hazards the properties are aimed at, the disagreements found between code and
documents, and for each property a mutant of the model that violates it.

## The system

A designer selects layers in Figma and turns them into FairyGUI resources of an
existing project:

1. The Web Console opens a *pairing*: a six-digit code. The Figma plugin
   exchanges it for a credential.
2. The plugin exports the selection and uploads it: a session, a manifest, its
   resources, a commit. The server publishes an immutable *selection*.
3. The console uploads the FairyGUI project as a ZIP and asks for a conversion:
   a *job* with a change bundle. A reviewer approves or rejects it.
4. A *local agent* on the designer's machine polls for approved jobs of the
   projects bound to it, downloads the bundle, writes it into the project
   directory with backups, and reports the result.

| Component | State it keeps | Operations | What is hard |
|---|---|---|---|
| Job store (`job_store.py`) | SQLite tables agents, project_bindings, jobs, apply_results | register, bind, create, approve, reject, claim, report | agents racing; rebinding while a job is applied; repeated, late and lost reports; no lease |
| Artifact store (`artifacts.py`) | one file per bundle, named by its hash | put, get | written before the row that names it |
| Apply transaction (`apply.py`) | the project directory, `.figma-to-fgui/backups`, temporaries | verify, prepare, back up and stage, replace, check, roll back, clean up | any file operation fails; the process dies; a designer works in the directory |
| Agent (`agent.py`, `cli.py`) | `agent.json`; the copy a running process has read | register, bind, poll, run | one poll is several calls; state read by one step is used by a later one |
| Pairing (`figma_pairing.py`) | SQLite tables pairing_codes, plugin_devices, pairing_failures | create, exchange, status, cancel, revoke, authenticate | codes guessed, expired, drawn again; cancel against exchange; clock read before the lock |
| Selection store (`selection_store.py`) with the uploader (`upload.ts`) | uploads, resources and selections tables; upload and published directories | create, manifest, resource, commit, expiry | retries, lost replies, restarts; sweeps without a lock; files and rows changed separately |
| HTTP service (`api.py`) | none of its own | routes; the job-creating handler | async handlers, worker threads |
| Uploaded projects (`project_upload.py`, `uploaded_project.py`, `project_store.py`) | one artifact per fingerprint, one metadata file per upload | check, extract, index, store, get, thumbnails | what an archive declares against what it holds; artifacts shared by uploads and servers; restart between artifact and metadata |
| Conversion core (`pipeline.py`, `normalize.py`, `classify.py`, `generate.py` ...) | none of its own; it reads an upload and writes a bundle | normalize, classify, register images, write panels | names and ids taken by earlier conversions; images edited since; bundles made from an upload that is no longer current |
| Figma plugin sandbox (`code.ts`, `pairing.ts`, `assets.ts`, `selection.ts`) | stored credential; the prepared selection | preflight, export, save, clear | shared state across awaits; a worker pool |
| Hosted plugin page (`PluginFramePage.tsx`) | React state and refs | pair, prepare, export, send | messages of an earlier attempt |
| Pairing panel (`PairingPanel.tsx`) | the current session, a generation number | begin, poll, regenerate, cancel, revoke | replies out of order |
| Review page (`ReviewPage.tsx`) and the other console pages | React state | load, approve, reject, preview | replies for another job |

They interact by HTTP (console, plugin page and agent with the service), by
`postMessage` (sandbox with plugin page), by the project directory (agent with
designer), and by two SQLite databases and the files beside them.

The hazards of each, at their source lines, are `hazards` in `PROJECT.json`.

## Modules

    JobLifecycle <- JobStore <----- AgentLoop        PairingPromise <- PairingStore
    ApplyPromise <- ApplyTransaction                 SelectionStore
    ProjectUpload <---- ProjectStore                 Conversion    PluginFrame

`A <- B`: B implements A, which is instantiated with a refinement mapping.
AgentLoop extends JobStore: the server's side of each call the agent makes is
the action of JobStore, and ProjectStore extends ProjectUpload, whose operators
it applies to each upload (the arrows with several dashes).

**JobLifecycle** is what the table promises: a job is created, decided at most
once, handed out at most once, and concluded only if it was handed out.

**JobStore** has the four tables as functions (`registered`, `binding`,
`status`, `result`), the artifact store, and the project a job was created
for. A store method that writes is one `BEGIN IMMEDIATE` transaction and one
action. Creating a job is `ConversionFails` (a row without a bundle), or
`StoreBundle` then `InsertJob`, with anything in between. `InitialStatus` is
computed from the bundle's diagnostics. A call that raises, or repeats what
already holds (approving an approved job, posting the same report), changes
nothing and is stuttering. `claimant`, `claims` and `rebound` are history
variables; the code keeps no claimant.

**ApplyPromise / ApplyTransaction.** One action per file visited by each loop
of `verify_pre_write`, `_prepare`, `apply_bundle` and `_rollback`. Contents are
what hashes distinguish: absent, before, after, edited, torn. `StageFails`,
`CommitFails`, `RestoreFails`, `CleanupFails` are the OSErrors at every point,
half-done copies included; `Crash` may happen anywhere, `DesignerChanges` too.
The order of the `finally` block matters: an error there replaces the pending
return or ApplyFailed, and the report then says nothing of the rollback.
ApplyPromise is the outside view: directory, verdict and the rollback field.
Its `project` is the set of conditions true of every file the report answers
for: of no files at all, when a designer edited each of them late, both are.

**AgentLoop** runs workers (processes) of agents (identities in `agent.json`)
against JobStore. `Claim`, `Select`, `Fetch`, `Verify`, `Write`, `Report` are
the steps of `poll_once` and `_apply`. `loaded` is what a process read when it
started, `config` what is on disk, `cli` an `agent bind` between its call and
its save. A directory's content is split into the files bundles touch (`main`,
covered by before hashes) and the others (`rest`, covered only by the project
fingerprint). `Write` may leave whatever ApplyPromise allows for the verdict it
reports; the `detail` of a report is the diagnostic code, with `unsure` for a
failure whose rollback failed or is unknown. `touched` has the workers whose
directory somebody else changed after they had selected it: a designer, or
another process of the same agent that writes to the same directory.

**PairingPromise / PairingStore.** `codes`, `devices` and `failures` are the
three tables; sessions are numbered as issued, devices as enrolled. An action
takes the time `t` its method read before it waited for the lock: `clock` or
one tick less. A cancellation or revocation from the console reads the session
in one step and writes in another. PairingPromise says what a pairing is to
its two ends: `waiting`, answered by one device at most or `closed`, `paired`,
`revoked` for good.

**SelectionStore** has the uploader (`client`, one per idempotency key) and the
store. A commit is four steps: the transaction begins, `Publish` copies and
verifies files with the write lock held, `Finish` writes both rows, `CleanUp`
removes the directory and replies. A sweep is three: select, remove the
directories, delete the rows; it takes the lock only for the last. Only one
sweep is in progress at a time, and its limit of 50 rows is not modelled.
Reads made before a request's first write need no lock.
`raced` marks the uploads a sweep selected while they were being committed;
`disturbed`, of a key, that a loss ended one of its sends or that an upload it
opened expired before it was committed.

**ProjectUpload** describes the work one upload does in a directory of its own,
as operators on an archive (a sequence of entries with path, kind, declared,
packed and real size, content; the sums over it are recursive functions of the
index): `BeforeUnpacking` with `ValidateEntries`, the copying under the limits again,
`RootError` and `Tree` for the search for the project's root, and
`IndexUploadedProject`. A fingerprint is the set of source paths and contents it
is the digest of. `FirstError` keeps the order of the checks, so each archive has
the error code the code gives it.

**ProjectStore** has the directories `artifacts` and `versions` of the store,
and each upload's progress: `Receive` (extraction and indexing), `CopyArtifact`
(is it there? else copy to a temporary directory), `ReplaceArtifact`
(`os.replace`, and the way out when another server was first), `WriteMetadata`.
The upload route runs on the event loop without waiting between extraction and
metadata, so one server handles one upload at a time; two servers on one data
directory are what the way out in `_copy_artifact` provides for. `StorageError`,
`Restart` (perhaps with another version of the image library, hence other
previews) and `Damage` may come at any point. A project id is new with every
upload, so the branch of `create` for metadata that exists is never met.

**Conversion** has what the pure functions compute as operators: `Valid`
(manifest validation), `OutputType` (classification), `Asset` (the name and
content `normalize.py` gives a resource), `ResolvedAssetName`, `MakeResourceId`,
`Register`, `Convert` (the files of a bundle), `Outcome` (a bundle, a failed job
or an unhandled error). `Outcome` meets the errors in the order of the code, since
the first decides whether the job fails (OSError and ValueError, which
`create_conversion_job` catches) or the request ends with a 500 and no job
(KeyError, OverflowError). They are: a key that is not declared, the size, the
index of the project, a missing decision, a style's own `resourceRefs`, a package
without `<resources>`, and then panel by panel its name, its children's offsets and
texts, its file. The name of a top-level panel becomes a file name: `Refused`
names are no safe path or hold characters XML refuses, `Unwritable` ones are too
long, and `Within` says which name needs another's file as its directory. A child
is `far` if its offset overflows, `plain` if XML can hold its name and text.
`form` is what the project is to its index, chosen once: whole, without the
package, without `<resources>`, with a resource whose path is unsafe, or with one
that has no id or name, which uploads check of images only. (One project may have
several of these; the first that is met decides.) Around them is the cycle in which
they are used: the designer uploads, conversions read the last upload, bundles
are applied to the directory if nothing they touch has changed there, the
designer edits images and the package. `Digest` is a constant, so the model can
make ids collide at once. Assets are taken in the order the manifest declares
them, where the code sorts them by a digest: the digest says nothing of the
content, so any order can come up. `Registrations` is the loop, as a function of
how many resources it has looked at. `Rules` is the sequence `load_rules` sorts.
`MaxPackage` and `MaxAttempts` bound the searches for a name and for an id, which
have no bound in the code, and `Fits` keeps a conversion within them. One package
is enough, because nothing crosses packages.

**PluginFrame** has the sandbox and the hosted page as two event loops with an
ordered channel in each direction. A handler runs to its next await; exports and
`clientStorage` calls end later, storage calls in any order or not at all. The
page is one record of the refs and states that decide something. The upload's
own requests are SelectionStore's; here an upload begins and, some time, succeeds
or fails. The start-up answer of `restore` may come at any time.

## Runs

| Run | Shows | Bounds |
|---|---|---|
| `job_store` | types; only clean bundles are reviewed; tables agree; one assignment; the claimant reports; reports are final; implements JobLifecycle | 2 agents, 2 projects, 2 jobs, 2 report details; complete state space, symmetry on agents and projects |
| `apply_faults` | success and rollback reports are true, previous content survives, only verified content is replaced; implements ApplyPromise | 3 files of which the middle one is created, 3 edits |
| `apply_concurrent_edit` | *violated*: a concurrent edit is overwritten | 3 files, 1 edit |
| `agent_loop` | types; a job in progress has one holder; the verdict is true of the directory; bundles go to the version they were made for | 2 agents with a worker and a directory each, 2 jobs, 1 lost call or crash, 1 edit, 1 bind or register command |
| `agent_liveness` | approved jobs conclude; with two processes in one directory each verdict is true of what its process left | 1 agent with 2 workers, 2 directories, 2 jobs, 1 edit, no faults |
| `pairing` | types; guess limit; lockout not extended; revocation closes the session; implements PairingPromise | 2 codes, 1 malformed guess, 1 address, 2 sessions, time 0..3 with TTLs 2 and 3, window 2, 2 attempts |
| `pairing_cancel` | *violated*: a live device that no console lists | time 0 |
| `selection_store` | types; selections are whole; one per key; a send that no loss ended and whose own uploads have not expired is accepted | 2 keys with one manifest of 2 resources, 3 uploads, time 0..2 with TTL 2, 2 faults |
| `selection_order` | *violated*: a complete upload is refused | 1 key, 3 resources |
| `project_store` | accepted projects stay readable; undisturbed uploads are accepted; an accepted root is one whole project; disk use is bounded | 2 uploads, 2 servers, all archives of up to 3 of 15 entries (and some of 4), total limit 4, file limit 3, ratio 2, 2 encoders, 1 fault, 1 damage |
| `conversion` | a conversion finds every resource and decision it looks up, whichever errors end it; ids are unique; bundles are complete; a repeated conversion changes nothing; applied panels resolve; registered images are kept | 3 jobs, 11 selections (a panel whose own and nested images differ, 2 panels of one name, one too large to convert, one whose bundle is too large, one with an unknown key, one with a duplicate, one with its own `resourceRefs`, three in which a far child comes after or before a refused name, a too long name or a text XML refuses, one with a nested name), the 5 forms of a project, bundle limit 4, 10 ids, packages of up to 9 resources, 2 edits |
| `plugin_frame` | an upload is of one selection and a key names one; the task shown is of the selection shown | 2 selections and an unsendable one, 1 pairing besides the stored one, 3 preflights, 3 sends |

Why these are enough to be interesting: two agents and a project that changes
hands exercise every ownership check; two jobs of one project exercise the
claim order and the fingerprint that an earlier job has changed; a created file
between two replaced ones puts both branches before and after each failure; two
sessions over two codes make draws collide and digits come back; three uploads
let a key be swept twice; time runs one tick beyond the shortest lifetime; three
entries are a package, its image and one that spoils either; three jobs let one
be made from an upload that two others have changed the directory since; three
preflights and sends leave two earlier attempts under way at once.
Where the system really can stop (a transaction ends; time, sessions or uploads
are bounded) the configuration disables the deadlock check; in JobStore and
AgentLoop registering an agent or restarting an idle worker is always possible.

**Fairness.** Only `agent_liveness` needs it: weak fairness of each worker's
poll steps. `agent run` is a loop without exit that sleeps between polls, and
its HTTP client has finite timeouts, so each call it makes ends. Faults are
excluded in this run because the store has no lease: a lost claim reply leaves
the job in `applying` for good, which `InProgressIsHeld` shows to be the only
way (with crashes and rebinding) for that to happen. No property excludes such
stranding: it is what the code does.

**What stands behind the premises.** `RollbackRestores` and `AppliedIsComplete`
speak of files no designer touched after the last check; without this premise
they are false, as `apply_concurrent_edit` shows: of the window between check and
replacement only that run speaks. `OneSelectionPerKey` excepts
uploads in `raced`: there a sweep may delete the row that a commit has just
completed, and a further send with the key publishes a second selection. The
check then still shows that every selection is whole. `UndisturbedSendsAreAccepted`
leaves out a key once a loss ended its send, because the manifest and the
resources cannot be sent twice, and once an upload of its own has expired
uncommitted. Creates and commits that the uploader repeats after a lost reply or a
restart are not left out, nor are the uploads and sweeps of others, expired or not.

## Disagreements between code and documents

The three runs that expect a violation are listed under `findings`, each with
the sentence of the repository it contradicts: concurrent local edits can be
overwritten; cancelling an answered pairing hides a live device; a selection of
ten or more assets can never be committed, because resources are fingerprinted
in one order and verified in another.

Three more were met while modelling and have no run of their own:

- `poll_once` "always attempts to submit a terminal result"
  (`docs/superpowers/plans/2026-07-28-local-apply-loop.md:325`), but a bundle
  request refused with 409 after a rebinding leaves it by exception
  (`agent.py:154`). `InProgressIsHeld` excepts rebound jobs for this reason.
- "Interrupted upload: retry reuses the idempotency key"
  (`docs/superpowers/specs/2026-07-28-live-figma-selection-plugin-design.md:151`),
  but `put_manifest` refuses every state but created, so a send interrupted after
  its manifest cannot be completed with its key. `UndisturbedSendsAreAccepted`
  leaves out sends that a loss ended for this reason.
- The upload "ignores `.figma-to-fgui/` [...] and existing backup folders"
  (`docs/superpowers/specs/2026-07-28-zip-project-web-console-design.md:68`), but
  `_project_root` counts every `package.xml` of the archive: a project zipped
  with the backups of a local apply in it is refused as invalid. ProjectUpload
  has it so (`Manifests` looks at all files, `SourcePaths` leaves ignored
  folders out).

Four behaviours no document speaks of. Two end the request for a conversion with
an unhandled error: finite but huge bounds, whose difference overflows
(`generate.py:35`), and a resource other than an image without id or name
(`project_index.py:29`), which the upload of the project accepts. `LookupsSucceed`
says that, of what the model has, these are the only two. (Control characters in a text, `resourceRefs` in
a style, unsafe or too long panel names, and sizes between the limits of the upload
and those of the conversion pass validation too; there the job fails.) Two are of
the page: when the credential is
replaced while a send is under way its answer is ignored, and the page goes on
waiting; and after a success the same selection cannot be sent again.

## Proofs

Eight modules, one per component; each theorem holds for every value of the
constants that satisfies the assumptions named in the component's module. Every
inductive invariant was checked by TLC on its component's run before it was
proved (that of ProjectStore with archives of at most two entries). The form is
the same throughout: one lemma per action or group of actions shows that the
invariant is preserved, under it one step per conjunct the action can disturb.

**JobStoreProofs**, for any sets of agents, projects and jobs (job ids being
natural numbers, `None` being none of them): type correctness, every safety
property of `job_store`, and the refinement of JobLifecycle. The properties are
not inductive. "At most one assignment" says nothing of the status, so IInv adds
`ClaimsMatchStatus` (a job has been claimed exactly when its status says so, and
then once); "the claimant reports" says nothing of the binding, so IInv adds
`ClaimantStillBound` (a job in progress belongs to its claimant unless it was
rebound). The step simulation is a case analysis on the action, using IInv for
the holder.

**AgentLoopProofs**, for any agents, processes per agent, directories, projects
and jobs, and any number of faults, edits and bindings: every property of
`agent_loop`. `LoopInv` is JobStore's IInv, whose lemmas it uses as they are,
with what each worker knows (`WorkerIsRight`): the job it holds is in progress
and its own, nothing of it was written before it writes, what it is about to
report is true, and what it selected and checked is still there unless others
wrote. For jobs it adds that no two workers hold one (`HeldOnce`), that only a
fault or a rebinding drops one (`NotDropped`), that one not handed out was not
written, and that a directory holds what a bundle wrote only if its job was
written (`FilesOfWritten`), without which a failed write might be found there.
That a refused bundle or report means a rebinding is where `ClaimantStillBound`
is needed. `LoopUsesTheStore` shows that the loop takes only steps of JobStore,
from which the store's action properties follow here, where it does not start
empty. `ContentsAssumption` says that job numbers mark what bundles wrote.

**ApplyTransactionProofs**, for any number of files `N >= 1`, any set of created
files and any number of edits: type correctness, the three safety invariants,
the action property of `apply_faults`, and the refinement of ApplyPromise. IInv
says where each loop stands (`Progress`), that files beyond the committed prefix
still have their verified content (`Unreplaced`), that backups exist once the
stage loop has passed (`Backups`), and what replaced files hold in each phase of
commit, check, rollback and cleanup (`Replaced`), all for files not edited late.
The backups never change while files are replaced, which is why nothing is lost
in a crash. In the refinement the last step of a phase needs IInv for what the
files look like when the verdict is given.

**PairingStoreProofs**, for any codes, addresses, lifetimes, windows and numbers
of sessions: type correctness, the two invariants and the action property of
`pairing`, and the refinement of PairingPromise. IInv adds that the counter of
an address covers its wrong guesses (`CountsCover`), that device ids are given
out in order, that a request which read a device still finds it, that a row
belongs to one issued session, and that each device answered one session, whose
row names it while it is there (`Origins`). Without `Origins` digits that come
back could be taken for the code of an earlier session, which is the step the
refinement turns on. The guess limit ends in a count of a finite set.

**SelectionStoreProofs**, for any keys, manifests, uploads, lifetimes and
numbers of faults: type correctness and the three invariants of
`selection_store`. `Safe` says that rows, directories and arrivals are of the
manifest of their key, that a commit still has what it checked as long as it
holds the lock (`WriterIsReady`: no sweep and no other request may disturb it),
that a selection keeps its row unless raced, and what a sweep has chosen.
`OnTrack` follows an undisturbed send through its steps, whatever happens to other
keys; that no sweep has chosen its upload (`SweepSpares`) is because a sweep
chooses only what has expired, which disturbs the key. That a sorted
listing of the keys exists is proved too, by induction on sets.

**ProjectStoreProofs**, for any set of archives of any length, any uploads and
servers, and any numbers of faults and damages: all four invariants of
`project_store`. IInv says that what is being stored was indexed from the tree
being stored, that what an upload found or put in place goes on verifying until
it is damaged (although other servers write to the same path), and, while
nothing has failed, that all servers make the same previews. `AcceptedRootIsWhole`
and `DiskUseIsBounded` are facts about the operators of ProjectUpload: that
extraction and indexing find the same packages, and that the sum of what is
copied stays under the limit up to the first error.

**PluginFrameProofs**, for any selections and any numbers of pairings,
preflights and sends: both invariants of `plugin_frame`. IInv says that attempts
are numbered once, and that an export the page still waits for is of the
selection in hand, *or* a preflight is among the messages ahead of it, which
will make the page forget it (`ExportsOfPrepared`, `MessagesMatch`). The order
of the channel is what this rests on.

**ConversionProofs**, for any selections, rules, limits, digests and numbers of
jobs, uploads and edits: the four invariants and both action properties of
`conversion`. Here the work is in the operators. `Done` is the loop invariant of
the registration of images, shown for each number of resources by induction: the
package has grown at its end only, its ids differ (`Extended`); each asset so far
has a name, registered in `assets`, whose file in the bundle or in the upload
holds its content (`Held`); and a file that is written holds such an asset and is
of no image the package had (`Written`). The two searches end because the names
tried, and by `DigestAssumption` the ids tried, outnumber the resources
(`NameIsFree`, `IdIsFree`). Around the operators the state invariant is short: the
directory and the last upload are `Sound` (no id twice, a file for each registered
image), and a job holds what its conversion made of a sound upload, or ended in an
error (`JobOfConversion`). That no lookup fails is shown of `Outcome`
(`RaisedConversions`): validation reaches every node the conversion looks at. An
apply keeps the directory sound because it goes ahead only if `package.xml` is still
the one the bundle was made from. That a repeated conversion changes nothing is a second induction: at its end the loop has left
every name it passed over unusable in the applied project as well (`Settled`,
`LoopSettles`), so the second time it stops at the same name and adds nothing
(`LoopFindsAll`).

Sums, least elements, loops and sorted listings need induction. The library's rules
take an operator as parameter; here `WFMin` gives the least element of the set
of counterexamples instead.

The proofs rest on no assumption except those named in the modules about their
constants, which TLC evaluates in the runs: that bounds and limits are natural
numbers, that lifetimes are positive and ordered, that `None` is no row, no job
and no selection, that archives are sequences of entries, that the manifests
declare their resources once, and which content marks a bundle. For the
conversion: that some rule matches each layer (`RulesAssumption`; the last of the
default rules, `node.inline-fallback`, has no condition), and that the attempts at
an image's id give more ids than the package has resources (`DigestAssumption`;
the code has eight hexadecimal digits and tries until one is free).

What the proof attempts changed in the model:

- ApplyPromise said that a directory is either intact, changed or damaged. When
  every file was edited late, a report answers for none of them and the step of
  the refinement fails. `project` is now a set of conditions, and the run has
  three edits so that the case is met.
- `AppliedToItsVersion` excepted only designers' edits. Two processes of one
  agent (`agent run` twice on a machine, which nothing prevents) can both verify
  a directory and then both write: the second bundle goes over the first. The
  property now excepts every change by others, as its comment says, and `touched`
  records them.
- Types that were left open (rows, archives, what `None` is not) became
  assumptions or parts of `TypeOK`.
- The searches of the conversion for a free name or id were unbounded choices,
  which for some packages and digests choose nothing. They are minima of bounded
  sets now, with the bounds and the assumption that make these sets nonempty.

Only model-checked: the liveness property `ApprovedJobsConclude` (fairness and
ENABLED are outside TLAPS's reach). The violations are TLC's too.

## Not modelled

See `components` in `PROJECT.json`. Content is abstracted to what hashes
distinguish; path containment, payload sizes beyond the limits named above, MIME and image validation, digests
and credentials (as strings), wording and logging are left out. Of the
conversion, geometry (but for an offset that overflows), the attributes of texts
and staging validation are left out: the generator always writes `autoSize="none"`, so validation never refuses
what it wrote, and every bundle of a job is applicable. `plan_resources` is used
by nothing. Node ids are taken to be distinct, as digests of the node's position
and content are. Serializing a selection (`selection.ts`) and its export by four
workers (`assets.ts`) are one step each in PluginFrame. Not modelled at all: the
console's pages (the pairing panel, review, upload and selection pages), the
designer preview (a read-only summary), the CLI's one-shot wrappers, build
scripts.

## Plan

Done, in this order: JobStore with its lifecycle and proofs (every other part
meets in it); ApplyTransaction with its promise and proofs (the only part that
changes a designer's files); AgentLoop, which composes the two; PairingStore;
SelectionStore; ProjectUpload and ProjectStore; Conversion; PluginFrame.

The proofs followed: JobStore, ApplyTransaction with its promise, PairingStore
with its promise, PluginFrame, ProjectStore, SelectionStore, AgentLoop,
Conversion. Every invariant and action property of a passing run has its theorem.

Next: what the properties do not say yet and a theorem could. That what a
selection's commit publishes is what a conversion may assume (SelectionStore's
`Manifest` as the source of Conversion's `Selections`), and that the conversion's
cycle of upload, apply and edit is one of AgentLoop's.

Then, if wanted, PairingPanel over PairingStore and ReviewPage over JobStore, in
the place of runs that only exhibit a finding.
