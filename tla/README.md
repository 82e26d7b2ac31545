# Pear Passwords: a TLA+ model of its daemon, store and helpers

This directory specifies, model-checks and proves properties of Pear Passwords: the root daemon
(`src/backend/icp/daemon`), the store it keeps on disk (`src/backend/icp/vstore`), the helpers
that talk to it (`src/backend/icp/client`) and its calls to iCloud. The modules are TLA+; TLC
checks them on the small instances of the `.cfg` files, TLAPS checks the proofs in the modules
named `...Proofs`. `PROJECT.json` maps every definition to the lines it models and lists the
runs, mutants, hazards, findings and theorems.

To check a run: `tlc -config MCEntries.cfg MCEntries`. To check a proof: `tlapm StoreProofs.tla`.

## 1. The system

A window (QML), a browser host, a clipboard helper and a migration helper talk to one daemon over
a socket. The daemon keeps, per uid, a *session* in memory and a *store* on disk. The store's
list key RK_list opens the titles (tier 1); its entry key SK_secret opens the passwords and is
unsealed only for single reads. Both are sealed by systemd-creds to the host key and, if there is
one, the TPM. Access is by polkit dialogs; a lock (button, sleep, logind, idle, a closed window)
wipes the keys.

| Part | State | Operations | Interacts with | What is hard | What makes it correct |
|---|---|---|---|---|---|
| Session registry (`sessions.py`) | `ui`, `tier1`, browser unlock and its timer, `epoch`, `store_lock`, `wipe_after` | `run_store`, `lock`, `detach`, `open_tier1`, `open_autofill`, `_wipe_store` | every handler; the worker pool | an event loop and a worker thread share the keys; locks land at any await | no keys outlive a lock; every wipe happens; nobody waits for ever |
| Handlers (`handlers.py`, `autofill.py`) | what each has read before its current await | one op per request | registry, store, polkit, Apple | values read before an await and used after it | an answer belongs to the unlock it was asked under |
| Store object (`vstore/__init__.py`) | `_rk`, `_doc`, `_fail`, `_wipe_req`, mutex | `unlock`, `lock`, `apply_sync`, `set_secrets`, `create`, `reset`, `reseal`, `import_v1` | disk, seal backend | one method is many writes; a crash between any two | nothing recorded is lost; memory and disk agree |
| Entry boxes (`entries.py`, `meta.py`) | `entries/`, `history/`, `meta.v2` | move to history, write, drop, record | store object | box and record are two files | a password stays readable until retention drops it |
| Sealing (`seal.py`) | blobs, the TPM behind them | encrypt, decrypt, classify | systemd-creds (external) | a TPM that is off, cleared or slow | keys that open are never thrown away |
| Sleep and clock (`logind.py`, `scheduler.py`) | inhibitor, signal queue, next sync | before_sleep, resume, tick | registry, logind (external) | a suspend must wait for the wipe, and not for ever | no key in memory during sleep |
| Grants and tickets (`grants.py`, `tickets.py`) | one live grant, one-time tickets | put, use, expire, issue, redeem, revoke | handlers | timers and overtaking calls | nothing outlives a lock; the last one asked for wins |
| Copies (`client/clip.py`, `wayland.py`, `watchers.py`) | an offer, a request's pipe, its readers | redeem, serve, replace, expire | daemon, compositor (external) | one paste in parts, recorders, X11's bridge | one program gets the value; the window is told the truth |
| Sign-in (`apple.py`, `frontend.py`, `auth/`, `octagon/client.py`) | the session record, the question asked | sign in, renew, join the circle, sign out | window, Apple (external) | a worker thread waits for a person | no escrow attempt unasked; a lock ends it |
| Edits in iCloud (`apple.py`, `cli/push.py`) | two records per entry | push, refetch, compare | iCloud (external), another device | a save names no version | an edit is whole or reported |
| 1.x import (`client/migrate.py`, `importer.py`, import ops) | the 1.x files, the backup, `state.json` | upload, commit, move away, purge | daemon, systemd, the 1.x program | three processes and two places to crash | no version of the vault is lost |
| Browser's requests (`client/autofill.py`, `server.py`, `polkit.py`, `dbus_safe.py`) | the host's pending requests, checks, dialogs | request, cancel, authorize, reconnect | extension, daemon, polkitd (external) | an answer crosses a cancel; losses | one answer each; no fill without approval |
| Matching (`autofill.py`) | handles, approvals, names per connection | query, names, fill | store | an entry changes while its dialog is up | a site gets only its own entries |
| Keychain, records, window, installer, registration, native helper | | | | cryptography, formats, user interface | see section 8 |

`PROJECT.json` lists every part with what is and is not modelled of it, and 40 hazards: the
places where a test would hardly find a mistake, each with the properties that would.

## 2. The modules

Layers: `Power` EXTENDS `StoreHandlers` EXTENDS `StoreGate`; `Clip` EXTENDS `Grants`; `AppleEdit`
EXTENDS `Account`; `Service` implements `Fills`. `Entries`, `StoreTree`, `Migrate` and `Autofill`
stand alone. A module `MCx` gives `x` the values of an instance.

The grain is that of the code everywhere: on the event loop a handler runs without interruption
from one `await` to the next, so each such stretch is one action; a thread or another process is
cut at its calls; the disk is cut at each rename, unlink and write.

**`StoreGate`, `StoreHandlers`: who may have the keys in memory.** The session, the store's mutex,
and the handlers that use them. A store call on the worker thread is a chain of its own (`Begin`,
`Enter`, `Leave`); `pc` says whether a request is asking (`ask`), queued on `store_lock`
(`wait`), handed to the pool (`run`), inside the mutex (`in`) or returned (`ret`). *Epochs*: the
code compares the epoch it captured with the current one and never anything else, so a task that
captured the current one is a member of `fresh` (or `jfresh`, for `run_store`'s own capture), and
a lock empties both sets. Two store calls of a handler are two calls here: a fill makes two
before its dialog and two after it, the reply to an unlock and a sync's event two, and a lock may
land between them. *Objects*: `create()` and `reset()` make a new `UserStore`; `keys` and
`wipe_req` are sets of objects, `store` is the session's, and each call is bound to the object of
the moment it was made.

**`Power`: the machine and the clock.** The thread of `logind.py` (a queue of signals, one
`call_in_loop` at a time, the wait for the wipes with its time-out, the delay inhibitor) and the
scheduler's tick, over all of `StoreHandlers`. A machine that is asleep takes no step. `excuse`
remembers that a night is not covered: there was no inhibitor when sleep was asked for, or the
thread had not caught up with an earlier night (`NotReady`), or a person approved a dialog after
the lock (`Approves`). The first and the last are documented; for the second see section 7.

**`Entries`: boxes, history and records.** `apply_sync`, `set_secrets`, `_replace_secrets` and
`EntryFiles` with each change of the disk a step: link into history, unlink, trim, write the box,
write `meta.v2`. `Fail` ends a call where a write can fail, keeping what memory already holds;
`Crash` drops the memory. A MAC stands for the value it is taken of. `owed` and `due` are history
variables: the passwords `meta.v2` has recorded and retention has not dropped, and those that the
records in memory describe and `meta.v2` does not yet.

**`StoreTree`: the directory and its keys.** The trees `u<uid>`, `.rotate`, `.tmp` and the ones
moved aside are a function `disk` from names to trees. `create`, `reset`, `unlock` (with
`_rollback` and `_drop_prev`), the move to the TPM and the 1.x import are cut at every rename,
unlink and write; the ops that start them carry the guards of their handlers. Keys are numbers,
blobs carry the TPM they are bound to. `Crash` may come at any step, and the TPM may be turned
off, turned on or cleared before the next start.

**`MCStoreTree`, `MCStore`.** Besides their instances, `StoreTree` and `StoreHandlers` with the
failures they assume away: an unlink in `_drop_prev`, an fsync after a swap. Only side
configurations use those.

**`Grants`, `Clip`: reading and copying one entry.** `Grants` has the live grant, the tickets, the
clip connections and every op that uses them, the edits among them, with what an edit does at
Apple in `AppleEdit`; `Session.epoch`, `Session.grant_serial` and
`current(uid) is g` are sets of the tasks whose captured value is still the current one (`fresh`,
`latest`, `mine`). `Clip` adds the process: its ticket, its source on the clipboard, the request
that is served, the processes found on its pipe (`identify`), what is read of it, the grace time,
and the outcome it reports. Programs, their pipes and parents are constants: a Wayland program, a
recorder that reads through a child of a child, two X11 programs behind one bridge, Pear itself.

**`Account`, `AppleEdit`: iCloud.** `Account` has the sign-in as the steps between two questions
to the window or two requests to Apple; the session record grows along `Progress`. `AppleEdit`
has an entry as the two records iCloud keeps of it; `zone` is the copy a step works from, a value
is the number of the change that wrote it, `todo` the fields an edit has still to push. Another device may write or delete either record
between any two steps; a request may fail, before or after iCloud took it.

**`Migrate`: the move from 1.x.** The importer's process, the daemon's import job and ops, the
settings file with its load and its save as two steps, the 1.x files as a version number that a
running 1.x may raise, the keyring's key, the backup, the units. Importer, daemon and window may
each go away at any step.

**`Service`, `Fills`: a browser's request.** `Service` has the extension, the host with its
pending requests, the connection, `authorize` with its pool and buckets, the polkit call with its
dialog and the bus router. `Fills` is what all of that promises, in five variables; `Service`
implements it under the mapping `Promise`: `asked` are the requests that left the extension,
`approved`, `off` and `filled` are recorded in `history` where the person answers, the code calls
a request off, and a fill is handed out; `answers` are counted by the extension.

**`Autofill`: which entries a site gets.** The rule by which a page's host matches an entry (as
operators on sequences of labels), and the three ops with the handles, approvals and names an
unlock has given out. `out` is the answer just given, with what the answer was based on.

The modules overlap on purpose, each at its own grain: `StoreGate` has `create` as one call that
ends with a new object, `StoreTree` its steps on disk; `StoreTree` has a sync as two writes,
`Entries` all of them; `StoreTree` has the import on disk, `Migrate` the processes around it;
`Service` has a fill as one step of the store, `StoreHandlers` its awaits, `Autofill` its choice.

## 3. The runs

| Run | Distinct states | What it shows |
|---|---|---|
| `store_window` | 356 thousand | two windows, unlock, read, reset, migrate-begin and a sync: keys only while open (`KeysOnlyWhileOpen`), none in replaced objects (`NoStrayKeys`), a lock waits for a store being made (`NewStoreIsAwaited`), a handler that looks again after its read answers nothing of an earlier unlock (`ReadsAreCurrent`; the reply to unlock looks at nothing and is in section 7), a sync stays in one unlock (`SyncStaysInOneUnlock`), an open window has its keys (`WindowHasItsKeys`) |
| `store_browser` | 2 million | `ReadsAreCurrent` with two browsers, a browser's own unlock, its timer and its hang-up |
| `power` | 290 thousand | no key in memory while the machine sleeps (`NoKeysAsleep`); every pending wipe happens (`WipesHappen`), every request ends (`RequestsEnd`), the suspend is not held up for good (`SleepGoesOn`) |
| `entries` | 891 thousand | no recorded password is lost (`PasswordsKept`), boxes open with their records (`BoxesOpen`), a box of the recorded version is the recorded box (`RecordsMatchBoxes`), only retention drops history (`OnlyRetentionDrops`) |
| `store_tree` | 4 million | no entry is lost (`NothingLost`), a tree with `keys.json` is whole (`KeysJsonLast`), memory follows a swapped tree (`MemoryMatchesDisk`), no host-only copy of keys that are on the TPM (`NoHostCopy`) |
| `grants` | 2 million | nothing to read a secret with outlives a lock (`SecretsOnlyWhileOpen`), overtaking grants leave the last one asked for (`LatestGrantWins`) |
| `clip` | 90 thousand | one copy at a time (`OneOffer`), one program gets the value and no recorder (`OnePaste`), the window is told the truth (`OutcomeIsTrue`), every offer leaves the clipboard (`OffersEnd`) |
| `apple` | 1.3 million | an edit does not undo its own earlier step (`EditsKeepEachOther`), what is answered is stored (`AnsweredIsStored`), no details without a password (`NoOrphan`); a join Apple does not know of is not recorded (`JoinedIsTrue`), no escrow attempt unasked (`NothingSpentUnasked`), a lock ends a sign-in (`SigninEnds`) |
| `migrate` | 1.4 million | the newest vault is always somewhere (`NothingLost`), 1.x is taken apart only after a verified import (`OldStaysUntilImported`), an importer without a window ends (`EndsWithWindow`) |
| `service` | 331 thousand | the whole path implements `Fills` (`KeepsPromise`), every request is answered (`AnswerComes`), a check's pidfd stays open (`PidfdLives`) |
| `autofill` | 2.6 million | accounts are named only under an approval of this unlock (`NamesNeedApproval`), a password goes only to a site of its entry's owner, under its own approval (`FillIsApproved`) |
| `store_rollback` | violation | the finding of section 6 |

Each takes less than four minutes with two workers.

**Bounds.**

* `store_window`: two windows, because a second window's hello can overtake the first one's detach;
  three store objects, because one can be in the session, one being made and one still returned by
  an earlier call; four tasks, one of each kind that shares the keys. An object nobody refers to is
  used again, so the number of replacements is not bounded.
* `store_browser`: two browsers, one for every autofill op and one that competes with its unlock.
* `power`: one window that unlocks and starts over, and the syncs; `MaxNights = 1`, with
  both halves of a night in it, the inhibitor there or not; the liveness properties take TLC too
  long with more. `NoKeysAsleep` alone is checked with three nights in `MCPowerNights.cfg` (1.5
  million states), the fewest in which a signal of one night can take effect in another, and
  proved for any number.
* `entries`: one entry, since a call works through its items one after the other and no step reads
  another entry's records; two passwords and two forms of the rest, so that a change of either, of
  both and of neither occurs; `MaxHistory = 2`, three versions and three history numbers, so that
  retention drops a box and more than one crash can come before it.
* `store_tree`: one entry (with two it holds as well, with 14 million states), three key pairs
  (create, rotate, start over), two TPMs (one cleared), two names for trees moved aside (a store
  that was reset and an import's).
* `grants`: two windows, two entries and two requests on their way, so that two grants can overtake
  each other on either side of a hang-up; no program, as the clip process needs none to hold its
  ticket.
* `clip`: two copies, one of which replaces the other, and five programs, one for each way a request
  can look to `identify`.
* `apple`: three changes, so that an edit meets a change of the other device before and after its
  first save, or follows an earlier one.
* `migrate`: two versions of the vault, so that 1.x may write after the import read it; two stores,
  one of which is started over; one importer and one backup name at a time, each used again.
* `service`: two requests, two connections (one lost, one after it), two threads, one refusal before
  the limit of a minute, one host (`MaxHosts`), so that the next connection may find the one its
  host gave up still counted. The host's pending requests and the daemon's tasks in flight are
  limited to two, which two requests never exceed: TLC does not see those two refusals, and what is
  proved holds for any limits.
* `autofill`: two connections, three requests (names, a fill and a query after them), one sync that
  changes an entry between them, locks up to the second epoch, one account to an answer. Its pages
  and entries are chosen for the rule's branches: two subdomains and their domain, over https and
  http, an entry with a trailing dot and a second site, one whose domain is a guarded suffix, and
  one that becomes a passkey (`MCAutofill`).

`store_window`, `store_browser`, `store_tree`, `grants` and `autofill` use symmetry, and check
invariants and action properties only: no action tells store objects, trees moved aside, windows,
entries, requests, copies or connections apart.

Deadlock is checked in every run but `migrate`, `service` and `autofill`, where the system may
really come to rest: the move is over and the old copy purged, the browser is closed, the bounded
requests are used up.

**Fairness.** `StoreHandlers` (used by `power`): for each task its next step is weakly fair
(`Begin`, `Worker`, `Return` or `Dialog`, of which a task never has two that could hold up each
other): the pool runs what it is given, systemd-creds has a timeout, the event loop resumes a
handler whose await is over, polkit's agent answers or times out, and a cancelled check returns. `Detach` is weakly fair: a closed connection's task ends. `SyncEnds` is strongly
fair: a sync may always go on with one more network step, and its requests are finite. `Power`
adds the watcher's thread, the event loop's turn for `lock_all`, the time-out `SLEEP_WAIT_S`,
logind (a suspend nobody delays happens) and that a machine that sleeps wakes up, without which no
request of any program ends. `Clip`: the clip process runs and its clock goes on. `AppleEdit`: a
sign-in's thread runs and its requests end; the person is not assumed to answer. `Migrate`: the
importer's own steps and the daemon's, and that the pipe of a window that is gone ends. `Service`:
the host, the event loop and the pool run; the person, the bus and polkitd are not assumed to do
anything. Nothing is assumed of users, timers or locks anywhere.

**Mutants.** For each property of each passing run `PROJECT.json` names a definition and a
plausible mistake in it (a dropped check, a wrong order, an off-by-one) under which TLC finds the
property violated. They stand in the modules just before the definition they change.

## 4. The proofs

Eight modules hold the theorems; each `XProofs` EXTENDS `X`. A theorem `XProp` says
`Spec => []Prop` for every value of the constants, so for any number of windows, requests,
entries, keys, versions and so on. Each rests on an inductive invariant that its module defines;
the lines below say what that adds to the property, and why the property alone is not kept.

**`StoreProofs`** (`StoreGate`, `StoreHandlers`, `Power`)

* `StoreTypes`, `StoreTypeOK`. `TypeOK` is not inductive: a handler that comes back from a call
  uses its object, so `Typed` adds `Bound` (a call is bound to an object, and a `create()` that
  succeeded left one) and `RolesKept` (an op runs on a connection of its role).
* `StoreKeysOnlyWhileOpen`: keys are in memory only while the store is open, about to be opened by
  a handler that saw no lock, or awaited by a pending wipe. `KeysInv` adds `Committed`: a handler
  between an unlock (or a new store) and `open_tier1` will open the store or wipe it.
* `StoreNewStoreIsAwaited`: a `create()` that runs past a lock keeps the wipe pending. `QueueInv`
  adds that only the head of `store_lock` has begun (`Queued`) and that a lock waits for every `create()`
  it met (`AwaitsNew`).
* `StoreReadsAreCurrent`: what a handler that looks again after its read sends (a query's list,
  names, an opened entry, a sync's event) was read in the unlock it is sent in, and asked for in it;
  a fill is held to its last call alone, because between `rematch` and `open_entry` it looks at
  nothing. It says nothing of the reply to unlock, which is not checked (section 7). A query
  compares no epoch; what makes up for it is the queue on `store_lock`. Whoever opens the store saw
  no lock since it joined the queue, so nobody behind it did either (`InOrder`), and those a lock
  did hit find the store closed until they are through (`LockedOut`, `LockedRun`).
* `StoreNoStrayKeys`, `StoreSyncStaysInOneUnlock`, `StoreWindowHasItsKeys`: no replaced object keeps
  its keys, a sync stays in one unlock, an unlocked window has its keys. Premise `OneOpener`: a
  window has one request at a time that opens or replaces the store, as the screens of
  `app/shell.qml` send them, and no browser opens it (op `names`). Without it the first and the
  last are false (section 7). A request past its dialog is `Deep`. `Orderly` says that one `Deep`
  request at most is in the queue: what the next window sends while the last one's request is
  still there queues up behind it (`QueuedBehind`), and that request, its window gone, makes no further call. So what an
  unlock, a wipe or a replacement finds, no other request disturbs (`Objects`, `Loaded`,
  `Undisturbed`), and no lock waits while a handler that saw none has a call (`Current`). All of
  `SafeInv` was checked by TLC on the instance of `store_window`, which satisfies the premise, before
  it was proved.
* `PowerImplementsStore`: `PowerSpec` implements `Spec`: the watcher and the scheduler do to the
  store only what any lock and any sync does, so every theorem above holds of it too.
* `PowerNoKeysAsleep`: however many nights there are. Premise `OneOpener`, since the property
  speaks of the keys of all objects. `NightInv` says where a night that nothing excuses can be:
  its signal is in the queue of a thread with nothing else to do (`Asked`), `lock_all` is with the
  event loop (`HandedOver`), it was run (`LockedUp`), or the wait for the loop timed out
  (`GivenUp`); only in the last two is the inhibitor gone. From the lock on the store is `Shut`:
  nothing is open, and no request in a call saw no lock since it began, so that none can open the
  store before a person approves another. What keys are left then, `SafeInv` says: those of a
  running call, or of a wipe that waits for one (`WipeAwaited`). `PowerInv` is the conjunction;
  TLC checked its new parts on the instance of `MCPowerNights.cfg` first.

**`EntriesProofs`** (`Entries`)

* `EntriesBoxesOpen`: `BoxInv` orders three numbers, `meta[i].v <= doc[i].v <= box[i].v`, and says
  that the box is exactly one ahead at the one step where it is written and not yet described.
* `EntriesRecordsMatchBoxes`: this and the next two rest on `Sound` (`BoxInv` and the shape of
  boxes and records). `MatchInv` follows a box and its record through a replacement, with
  what the call is about to write.
* `EntriesPasswordsKept`: `HeldInv` says where each password is that `meta.v2` has recorded
  (`owed`) or memory describes (`due`): in the box, in a recorded history box, or in the link just
  made. Premise `LoginsReturn`: an entry that was deleted comes back as a login. Without it the
  property is false (`MCEntriesPasskey.cfg`).
* `EntriesOnlyRetentionDrops`: an action property. `RetentionInv` orders the numbers of the history
  boxes, so that the first recorded one is the oldest.

**`StoreTreeProofs`** (`StoreTree`). `TreeInv` says what each tree on disk is at each step: of one
key pair and whole if it has `keys.json`, in step with memory, and how far a create, an unlock, a
reseal or an import has brought its tree.

* `StoreTreeKeysJsonLast`, `StoreTreeMemoryMatchesDisk`: from `TreeInv`, for all crashes.
* `StoreTreeNoHostCopy`, `StoreTreeNothingLost`: with `SealInv`: the blobs of a tree are all on one
  TPM or all on none, and keys that are on the TPM are in no other tree without it. Premise
  `RollbackStops = FALSE`: no crash falls between the renames of a rollback; with one `NothingLost`
  is false, the finding of section 6.

**`ClipProofs`** (`Grants`, `Clip`)

* `ClipSecretsOnlyWhileOpen`, `ClipOneOffer`: `OfferInv`: a copy is on its way as a ticket or as a
  live connection, never as both, and there is one.
* `ClipLatestGrantWins`: an action property, `AskedInv`: a task that is still the `latest` works for
  the entry that was asked for.
* `ClipOutcomeIsTrue`: what the process has done of a copy against what the daemon was told.
* `ClipOnePaste`: while a copy is served, `paste[c]` are the readers of the one program that got it.
  Premises `OneProgramEach` (no two programs share all that is seen to read for them, unless X11's
  bridge reads for both) and `RecordersAreKnown` (a recorder reads through processes `is_watcher`
  knows, never through the bridge); the instance of `clip` satisfies both, and what breaks them is
  what `identify` cannot see.

**`AppleEditProofs`** (`Account`, `AppleEdit`). `Types` says which steps belong to which call.

* `AppleEditJoinedIsTrue`, `AppleEditNothingSpentUnasked`: `Consents` (what an answered question
  proves) and `Joined` (what a join has done so far), whatever is locked, cancelled or fails.
* `AppleEditNoOrphan`: `Pairs`, the two records between two requests of a create or a delete.
* `AppleEditEditsKeepEachOther`, `AppleEditAnsweredIsStored`: `Loop` and `Keeps` (the fields
  `push_set` has still to push, in any order, and those it has written) and `Answers` (what
  `_landed` found).

**`MigrateProofs`** (`Migrate`)

* `MigrateNothingLost`: `Copied` says that a copy which anything may purge (the session's, the
  settings', one in a save under way, in a dialog or in an importer) has its version in the store
  or in a store moved aside, although the settings are loaded and saved in two steps and a store
  may be replaced between them.
* `MigrateOldStaysUntilImported`: `Verified` says that an importer past its commit, and a job that
  will say yes, have an import behind them.

**`ServiceProofs`** (`Service`, `Fills`)

* `ServiceKeepsPromise`: the whole path implements `Fills`, each step a step of `Fills` or a
  stutter. The invariant has `Line` (a request is in one place on its way and unanswered until the
  host lets it go) and `Held` (what a task under way has: the pidfd, the cancel that came, the
  approval if it was told yes). `ServicePidfdLives` follows from the same.
* `ServiceOneAnswer`, `ServiceOnlyApproved`, `ServiceCalledOffStaysEmpty`: what `Fills` means in
  plain terms, first proved of `Fills` and then, through the refinement, of `Service`.

**`AutofillProofs`** (`Autofill`)

* `AutofillNamesNeedApproval`: the property speaks of the last answer; `Earned` adds that wherever
  the code remembers that it may name accounts, the memory either carries an older epoch or has
  its approval. A lock raises the epoch and empties the approvals in one step, which is why
  neither half could do without the other.
* `AutofillFillMatches`: a password is given only for a page that the rule matches to the record
  as it was looked up, on a handle of this unlock. No run checks it by itself: it is the part of
  the next one that needs no premise.
* `AutofillFillIsApproved`: a password goes only to a site of its entry's owner, under its own
  approval. `Sound` says what a request past each of its steps knows. Premise `PlainHosts`: no
  public suffix a host ends in lies below a name that is none; what happens otherwise is
  `MCAutofillSuffix.cfg`.

Assumptions are the named `ASSUME`s of the modules, which TLC evaluates in every run: connections
have one role, ops belong to a role, null values are outside their sets, limits are positive. The
premises named above are hypotheses of the single theorem; the instances of the runs satisfy them
(`MCClip`, `MCAutofill` and the `.cfg` files say so), the side configurations of section 7 drop
them.

**Only model-checked:**

* Every liveness property (`WipesHappen`, `RequestsEnd`, `SleepGoesOn`, `OffersEnd`, `SigninEnds`,
  `EndsWithWindow`, `AnswerComes`): fairness is out of the prover's reach.

## 5. Abstractions

* Cryptography: a box opens with its key, a MAC equals another if and only if the values do.
* What a store call computes: `StoreGate` keeps whether it worked, and what it does to keys.
* `StoreHandlers`: the event after an edit (`_notify_list_after`) reads the list and checks the epoch
  as a sync's does, and is not an op of its own; a `background_sync` whose first call a lock and a
  new unlock cross runs its sync in the later unlock, as in the code, and withholds its event; the
  settings, loaded and saved in two calls, are one (`Migrate` has them as two); a fill whose
  connection is locked and opened again between its two calls after the dialog goes on, as in the
  code, with the entry looked up before.
* `Grants`: an edit ends the grant that is there when its push is through, which may by then be
  another (`op_set` calls `end_grant`, whatever it is), and a push that fails leaves a spent grant
  to its release; that an edit reads the values of a lasting grant anew is left out.
* `Account`: a second code that Apple may ask for in the first sync after a join is not modelled;
  `AppleEdit`: of a local edit only the password, and no nickname. `Migrate`: an import's swap and
  the job's note of it in the session are one step, except in the side configuration that cuts them.
* A crash loses memory and nothing on disk: the code fsyncs files and directories. In `StoreTree`
  the fsync of a directory, a rename and an unlink do not fail; `MCStoreTree` and `MCStore`
  have what follows if they do (section 7).
* `StoreTree` leaves out nicknames, aliases and `device.json` (the session stands for the files
  sealed under derived keys) and the `.new` files of versions before key rotation. An op is
  refused there if the store is not in its state; its dialog and the locks during it are in
  `StoreHandlers`.
* `Entries` lets iCloud return any of the forms in which it may hold an entry; the passing run has
  a deleted entry come back as a login, the other case is `MCEntriesPasskey.cfg`.
* In the passing run `store_tree` a crash does not fall between the three renames of a rollback
  (`RollbackStops`); that it may is the run `store_rollback`.
* `power` has one uid and one logind session; a lock of either is a `Lock` at any time. The clock
  is free: an idle time, a sync's due time and a time-out may come at any moment after they start.
* `Clip` takes the list of a pipe's holders in one step, during which no process ends; the
  compositor serves one request at a time.
* `AppleEdit` has one entry; its other device writes both records at once, as Apple's app does.
* `Autofill` represents a host by its labels; how an origin is parsed and a value stripped of its
  scheme, port and path is not represented.
* External parts (logind, the compositor, iCloud, the 1.x program, polkitd, the bus, the browser)
  do what the code that uses them allows for, including failing, answering late and going away.

## 6. Finding

`store_rollback`: a rollback of sealed keys cut short by a crash. `_rollback` renames three files
one after the other; after a crash in between, the next unlock opens with the one blob that was
put back and deletes the `.prev` of the others, the only copy of the entry key that still opens.
`vstore/__init__.py:942` says that a `.prev` must never go while it is the only copy of a key.

## 7. Side configurations

These configurations check a sentence of the documents, or a comment, that the code does not keep
under some schedule; TLC violates each of them. They are not runs of the project, since the same
modules hold the properties of section 3, and are kept so that a change of the code can be tried
against them.

| Configuration | Module | The sentence | What happens |
|---|---|---|---|
| `MCStoreSleep.cfg` | `MCStore` | docs/security.md:152-160, docs/protocol.md:231: a lock that finds a store call running asks it to wipe, and the suspend waits for the wipe | a call handed to the pool but not yet inside the mutex is not found running: the lock waits for nothing, and the call goes on to load keys, which are wiped only after it returned |
| `MCStoreReply.cfg` | `MCStore` | daemon/autofill.py:411: a lock that landed while the list was being read wins: nothing read under the old session leaves the daemon; likewise daemon/handlers.py:99 (`_still`) for an entry | the reply to unlock is the whole list, read with its status in two calls after tier 1 opened, and nothing is checked after them: a lock during either leaves the reply to go out after it, also after the "locked" event and a new unlock |
| `MCStoreRetry.cfg` | `MCStore` | docs/protocol.md:223: a lock trigger wipes every key of the uid | an unlock queued behind a reset or create runs on the object that was replaced, and no later lock wipes it |
| `MCStoreTwoUnlocks.cfg` | `MCStore` | docs/protocol.md:764: when a browser's connection closes and the window has tier 1 open by then, only the connection's access ends | a browser that hangs up during its own unlock has the keys wiped under a window that opened tier 1 meanwhile |
| `MCEntriesRepair.cfg` | `MCEntries` | vstore/entries.py:13-17: a crash leaves the box one ahead; the next sync repairs meta | the box stays ahead of its record if iCloud has gone back to what the record describes |
| `MCEntriesPasskey.cfg` | `MCEntries` | vstore/\_\_init\_\_.py:989, vstore/meta.py:19: a removed login's password is kept as history | a deleted login that comes back as a passkey alone loses its last password |
| `MCMigrateAside.cfg` | `MCMigrate` | daemon/handlers.py:1129: a store made by a migrate-begin that never committed holds keys and nothing else | an import cut short between its swap and the save of the settings leaves a full store that passes for one that never committed, and the next attempt moves it aside with the whole vault in it |
| `MCMigrateRollback.cfg` | `MCMigrate` | README.md:251: until the old copy is deleted, rename it back and reinstall 1.3.2 | for a vault under a key in the keyring the key is gone while the copy is still there |
| `MCClipDisplaced.cfg` | `MCClip` | daemon/handlers.py:722: a new copy withdraws the previous one | a copy that was withdrawn while it was about to offer takes the clipboard for a moment |
| `MCServiceDisabled.cfg` | `MCService` | docs/autofill-protocol.md:201: "disabled" is autofill switched off in the window | a host that connects before the session's settings are loaded is told "disabled" although the setting on disk is on |
| `MCServicePolkit.cfg` | `MCService` | docs/protocol.md:273, polkit.py:62: polkitd that cannot be reached is "no-agent", NoReply included | when polkitd ends under a dialog, the router drops the bus driver's NoReply as another sender's, and the check waits for ever |
| `MCStoreDrop.cfg` | `MCStore` | docs/protocol.md:211-212: keys are in memory only while tier 1 is open | an unlink in `_drop_prev` raises after the keys were loaded: `op_unlock` answers with an error, opens nothing and wipes nothing |
| `MCStoreTreeDrop.cfg` | `MCStoreTree` | vstore/\_\_init\_\_.py:474: no host-only copy of a key that opens current data is kept | after the same error the store is used with the `.prev` still there, since the next unlock returns at once |
| `MCStoreTreeFsync.cfg` | `MCStoreTree` | vstore/importer.py:16-17: only a crash between the two renames is left to deal with | the fsync after the import's renames raises: memory still knows an empty vault, and the next sync writes a `meta.v2` without the imported entries |
| `MCAutofillSuffix.cfg` | `MCAutofill` | docs/autofill-protocol.md:235-239, autofill.py:62-68: the shorter host of a related pair is a registrable domain, and siblings never match | a guarded suffix of three labels below an unguarded name (s3.amazonaws.com) does not separate what is above it: an entry of amazonaws.com is related to a bucket's page |

`NoKeysAsleep` excepts one more schedule, found while its invariant was worked out. logind.py:8-11
says that the inhibitor is released only once every uid is locked. The thread of `LogindWatcher`
handles its signals one by one, and taking an inhibitor is a call to the bus. If that call comes
back only after the machine has slept and woken a second time, the queue still holds the second
night's PrepareForSleep(true) while the new inhibitor is held. Handling it locks, and releases an
inhibitor that by then holds back a third suspend; what was unlocked since that lock is in memory
when the machine sleeps, and the third night's own signal is handled after it woke. With
`NotReady == ~inhibitor` TLC finds this with `MCPowerNights.cfg`, and nothing with two nights.

## 8. Not modelled

* Cryptography, wire formats and the exchanges with Apple's servers (escrow, keychain, CloudKit,
  GrandSlam): chains of calls without concurrent state. Their order and failures are in `Account`
  and `AppleEdit`, their contents are not.
* How records become entries, tag lines, TOTP, password generation: functions of text, whose
  models would repeat the code character by character.
* The window: a user interface whose requests are the inputs here, in any order.
* `autofill_register.py`, `pear-exec`, the development CLI, the anisette build: no state shared
  with anything modelled. The installer: shell scripts run by one person.
* Of the modelled parts: the output buffer of a slow reader, the table of logind sessions, the
  back-off between syncs, nicknames, aliases and `device.json`.

## 9. Plan

Done: every module of section 2 and every theorem of section 4; each invariant and each action
property that a run checks is also proved. What is left are the parts of section 8 that keep state:
the table of logind sessions, the back-off between syncs, `device.json`.
