# Verification of wfx-s3-go

`wfx-s3-go` is a file-system plugin that lets Total Commander (Windows) and
Double Commander (FreeBSD) browse S3 buckets. This directory holds TLA+ models
of the plugin's stateful code, the TLC configurations that check them on small
instances, and proofs checked by TLAPS. Definitions are translated from the Go
source and keep its names; source positions are given relative to the repository
(`service.go` is `internal/wfx/service.go`).

## 1. The system

The host loads the plugin as a shared library and calls its exports on threads
of its own. The exports call `wfx.Service`, which calls `s3store.Store`, which
calls the AWS SDK. Everything the plugin remembers is in memory; the only files
it writes are the destination of a download and its temporary sibling.

    host ── exports (cmd/wfxs3) ── Service (internal/wfx) ── Store (internal/s3store) ── S3
      ^            │                     │   ├─ config cache ── config.Load ── wfx_s3.ini
      └─ callbacks ┘                     │   ├─ enumeration handles
        (progress, log, request)         │   ├─ activity log
                                         │   └─ connection test
                             debug dialog (internal/debugui) ┘

| Component | State it keeps | Operations | Meets others through | What is hard | What makes it correct |
|---|---|---|---|---|---|
| **Transfer supervision** `service.go` 53-60, 632-740, 742-786 | atomic byte counter and size, ticker, `lastDone`/`lastMoved`, throttle (`last`, `lastPct`), cancellable context, result channel | `runTransfer`, `progress.report/update/finish`, `countingWriter`, `countingReader` | work goroutine ↔ host thread by two atomics and a channel; callback into the host | a callback blocks the sampling thread; overdue ticks carry old times; the result races the tick; a rewind turns the counter back; the cancelled work must be waited for | a stall verdict is not early, a silent transfer is noticed, Cancel keeps being offered, the call returns and never before the work |
| **Download** `service.go` 271-399, 602-630 | temporary file, destination, the response's times | `GetFile`, `replaceFile` | runs its goroutine under `runTransfer`; `Head`-less `GetObject`; `DeleteObject` for a move | failures between any two steps, crash, other programs and clients, a destination made writable and replaced in two steps | the destination is whole, the answer matches the disk, nothing is replaced unasked, a move loses nothing |
| **Upload** `service.go` 401-480, 742-786 | `countingReader` position and `readErr` | `PutFile` | goroutine under `runTransfer`; the SDK reads and rewinds the body | retries, lost answers, late commits, edits of the file, local and remote errors confused | OK means stored, an error is attributed to the right side, a move loses nothing |
| **Deletion** `service.go` 482-500 | none | `DeleteFile` | one request | – | the error is told |
| **Configuration cache** `service.go` 95-164, 502-580 | `config`, `configInfo`, `loaded`, `configErr`, the INI's path | `reloadConfig`, `profile`, `ResetConfig`, `SetDefaultIniName` | every operation begins here; three separate lock sections per call | reloads of several threads interleave with each other and with edits; the stamp may not change; the file may be out of reach | the stamp vouches for the content, a call is not served an INI older than its beginning, refused INIs are not used, errors do not outlive their cause |
| **INI and profiles** `config.go` | none | `Load`, `NormalizePrefix` | called by the cache | duplicates, defaults, comments, prefix normalisation | a profile is what the section says |
| **Enumeration handles** `service.go` 89-93, 172-269; `main.go` 161-205 | `handles`, `nextToken` | `FsFindFirstW`, `FsFindNextW`, `FsFindClose` | several host threads; the host reads the thread's last error | counter wraps, 0 and the largest token are not handles to the host, error callbacks overwrite the last error | every enumeration gives its own snapshot once, no handle leaks, failures are told apart |
| **Object listing** `store.go` 141-199 | per call: `seen`, `entries`, continuation token | `List` | several requests | the bucket changes between pages; files, folders and markers share names; services differ over markers | nothing that stays is overlooked, names are unique, the listing ends |
| **S3 backend** `store.go` | clients by profile identity | `Head`, `Download`, `Upload`, `Delete`, `Probe` | SDK | retries and header timeout belong to the SDK; a cached client outlives the profile it was made for | a profile gets the client of its own endpoint and credentials |
| **Modification times** `mtime.go`, `modtime.go`, FILETIME in `main.go` 405-455 | none | format and parse `x-amz-meta-mtime`, choose among three candidates, FILETIME both ways | metadata of uploads and downloads; the host hands the listed time back | fractions, "-0", times before the epoch, years out of range, the sentinel | an upload that comes back has its time; a foreign object gets the best time it has |
| **Activity log** `activity.go` | ring of 100, `next`, `count` | `add`, `newestFirst`, `record*` | every operation adds, the report reads | wrap and seam | it is the list of the latest activities |
| **Connection test** `conntest.go` | `s.test`: running, error, results | `StartConnectionTest`, `finishConnectionTest` | one goroutine per profile and a wait group; the dialog polls | profiles change, second start, failed reload, publication before all probes ended | one test at a time, complete results, every test ends |
| **Debug dialog and report** `dialog.go`, `debug.go`, `main.go` 313-334 | `active`, `polling`, `font`, `failure`, the text | show, refresh, test, timer, font change, close | the connection test, by polling; the activity log; Windows messages while a handler of the host runs | the test ends between report and poll; a dialog is closed and opened again while a test runs; a second `Show` comes while one is open; a handler panics | button, timer and text agree with the test; an open dialog answers; nothing it made is left behind |
| **Remote paths** `path.go` | none | `ParseRemote`, `ObjectKey`, `ListingPrefix`; `RemotePath` has no caller | every operation | two separators, backslashes in keys, names cut to `cFileName` | a name from a listing addresses what it was listed from |
| **Host adapter** `main.go`, `main_freebsd.go` | callback pointers, host information | the exports, string and time conversion | C ABI | buffer limits, last error | each export answers as the ABI documents |
| **Content types**, **Win32 wrappers**, **build scripts, ABI smoke test, SDK headers** | none | – | – | – | – |

`PROJECT.json` lists the same components with their status and the hazards at
their lines.

## 2. Modules

| Module | Models | State and actions |
|---|---|---|
| `Transfer` | the promise `runTransfer` makes its callers | `host`, `work`, `ctx`, `result`, `verdict`; Launch, Stop, WorkReturns, Collect, Reap |
| `RunTransfer` | `runTransfer`, `progress`, both counting wrappers' effect on the counter | discrete time kept as ages; `Sample` is the tick branch up to `p.update`, `TickQuietly`/`TickAndCall` are the throttled and the calling branch of `progress.report`, `Judge` the idle test, `Reap` is `stop` |
| `GetFile` | `getFile`, `replaceFile`, the download goroutine, crash, other programs and clients | one `pc` value per statement that can fail or change state (`replaceFile`'s first rename, `os.Stat`, `os.Chmod` and second rename are four); `dest`, `temp` are directory entries with the object version and the number of chunks they hold |
| `PutFile` | `putFile`, `countingReader`, the SDK's attempts, the server | `stat`, `attempt`, `phase`, `pos`, `sent`, `readErr`; `obj` is a body with the time it was stored with, `pending` are objects of abandoned attempts that the server may still store |
| `ConfigCache` | `reloadConfig`, `profile`, `ResetConfig`, `SetDefaultIniName` | per thread the locals of a call; one action per lock section (`configFailed`'s is `ConfigFailed`) and per system call |
| `FindHandles` | the find exports, `FindFirst/Next/Close`, the last error | `handles`, `nextToken`; one action per lock section or host-visible step |
| `ListObjects` | `Store.List` and the service's paging | `bucket`, `token`, `seen`, `entries`; one action per page |
| `ActivityLog` | `activityLog` | `entries`, `next`, `count`; `Add`; `NewestFirst` is the function the report calls |
| `RecentActivities` | what the log promises | the sequence of the latest activities |
| `ConnTest` | `conntest.go`, on top of `ActivityLog` | `test`, `group` (goroutines), `starter` (the caller's place in `StartConnectionTest`); a probe records its activity and then stores its result with `wg.Done`, other operations leave activities of their own. `TestSpec` lets a caller start tests at any time |
| `DebugDialog` | the dialog procedure, `Show`, and what the report says of the test and the activities, on top of `ConnTest` | `active`, `dlg` (the dialog thread's place), `polling`, `shown`, `font`, `fonts`, `failure`, `answer`; one action per message and per lock section of the report |
| `TimeStamps` | `mtime.go`, `modtime.go`, FILETIME conversion | operators on times `[sec, ns]` and on decimal texts (sign, whole part, scale and value of the fraction: `.25` has scale 100 and value 25) |
| `RemotePaths` | `path.go`, `NormalizePrefix`, the name `Store.List` shows | operators on sequences of characters |
| `Roundtrip` | what passes through the host between listing, get, put and delete, and the client cache of `s3store.Store` | `config` (the profile the service has loaded), `clients`, `object`, `folder` (the host's path, a string), `entry`, `local`; one action per export, `Reload`, and the other programs and clients |

`DebugDialog` extends `ConnTest`, which extends `ActivityLog`: the dialog's thread
is the one that runs `StartConnectionTest`, the probes write the log, and the
report reads the test's state and the log one after the other. Every behaviour of
the dialog is one of `TestSpec`, which is proved (`DialogDrivesTest`), so that what
is shown of the test alone holds under the dialog. `Roundtrip` uses `TimeStamps`
and `RemotePaths` and takes every call as one step; the insides of the calls are
`GetFile`, `PutFile` and `ListObjects`. Its `config` is the profile the service
passes to the store, not the file: when an edit of the file gets there is the
subject of `ConfigCache`, and `Roundtrip!Reload` lets it get there at any time.

`GetFile` and `PutFile` do not repeat `runTransfer`: they contain its
abstraction, and refine `Transfer` as `RunTransfer` does. So what is shown of
`RunTransfer` (it returns, and not before its work) may be used by the two
callers, and their fairness (`Stop("stalled") \/ TransferReturns` is eventually
taken) is `RunTransfer!Returns`. `Transfer` has a `Rest` and a `Die` step since
a caller makes one transfer after another and its process may die.

`X_proofs` holds the theorems of `X`, `MCX` the instance TLC checks.
Definitions under a comment `Mutant:` are plausible mistakes in the definition
that follows; they are used by no specification and serve to show that each
property depends on the code.

### Abstractions

* *Bytes* are chunks, *versions* of a file, an object or the INI are numbers.
  In `GetFile` and `PutFile` a time stamp is the version it belongs to (0: the time
  of writing); what the numbers of a time stamp do is the subject of `TimeStamps`. So
  "half of an object", "the time of another version" and "a body mixed of two
  versions" can be told apart, and nothing finer.
* *Time* in `RunTransfer` is discrete; clock values are kept as ages, so no bound
  on the clock is needed. A Go 1.23 ticker delivers an overdue tick with the time
  at which it was due and then keeps to its grid; `Sample` does the same.
* *Goroutines* interleave at statements that can be observed by another
  participant; each lock section is a step.
* *Remote calls* answer, fail, or fail after they have taken effect. The AWS SDK
  and the server are external: they are modelled by what `src/` relies on.
* *History variables* (`quiet`, `silence`, `meddled`, `overtaken`, `began`, `given`,
  `opens`, `PutFile`'s `failure`, `steady`, `cutShort`, `delivered`, `others`, `complete`, `plain`, an
  object's `source`, an entry's `key`, `prefix` and `modified`) record what a property speaks of; no
  action that models code reads them, except that `opens` limits how long an
  enumeration stays open while others are opened (`NoneLasts`, see bounds) and
  `others`, which counts the activities of other operations since the last test began,
  bounds them.
* *The profile* in `Roundtrip` has the fields a client is made from (endpoint, region,
  access key, secret key, session token, path style) and the prefix. Its name and its
  bucket, which are part of a client's key too, are the same throughout.
* *Stamping* is best effort (`README.md` 152). A file whose time cannot be set keeps that
  of its writing: `StampMatchesContent` allows it, and `RoundTripKeepsTime` and
  `BestTimeWins` speak of downloads whose time can be set.
* *A truncated page* without a continuation token ends a listing, and what is there by
  then is returned as all of it (`store.go` 193). No service should answer so;
  `ListPage` lets it, and `NothingOverlooked` and `FoldersShown` except it by `cutShort`.
* *Names and keys* are short sequences over a few characters, among them both
  separators. *Decimal texts* keep their sign, the number of fraction digits (as the
  power of ten they count in) and the values: what `strconv` and `fmt` do with the digits is arithmetic here.

## 3. Runs

The runs check deadlock, except those of `RunTransfer`: one transfer ends.

| Run | Instance | What it shows |
|---|---|---|
| `RunTransfer_transfer` | size 2, tick 2, throttle 5, timeout 8, callbacks up to 4 units, one rewind, with and without callback | `StallBound`: a stall verdict is early by at most the time a callback may block; `StallNoticed`: a silent transfer is not polled for more than two ticks and two callbacks beyond the timeout; `CancelResponsive`; `Returns`; refines `Transfer` |
| `RunTransfer_late_tick` | timeout 7, callbacks up to 7 | *violation* of `StallMeansSilence`, see findings |
| `GetFile_download` | two chunks, two versions, only the second dated | destination whole, answer tells delivery, stamp belongs to content, no unasked replacement, move loses nothing, a move that answers OK has moved, calls end, refines `Transfer` (whose Collect and Reap say that nobody writes once the call has gone on) |
| `PutFile_upload` | two chunks, two versions, three attempts | OK means stored whole with its time, errors attributed to the right side, no time newer than the content it goes with, no unasked replacement, move loses nothing, a move that answers OK has moved, calls end, refines `Transfer` |
| `ConfigCache_threads` | two threads (interchangeable), three versions of which the second is refused, stamps that may not change, re-initialisation | stamp vouches for content, calls reflect the INI and never use a refused one |
| `ConfigCache_error` | one thread, one version | *violation* of `ErrorIsCurrent` |
| `FindHandles_walk` | two threads, two names, four tokens | own snapshot, no leaked handle, failures told |
| `ListObjects_listing` | six keys, pages of two, both ways services treat markers | nothing overlooked, names once, listing ends |
| `ListObjects_hidden_folder` | the same | *violation* of `FoldersShown` |
| `DebugDialog_dialog` | two profiles, two tests, one other activity per test, a log of two; the dialog, or (`alone`) another caller, who may start a test while one runs, which the dialog's button does not allow | complete results, no overlapping tests, a click starts a test, a finished test's probes are in the same report, an open dialog answers, fonts are released, a polled test is shown, tests end, and the ring refines the list of recent activities |
| `DebugDialog_missed_end` | the same | *violation* of `ShowsResults` |
| `Roundtrip_host` | both separators, one object among eight shapes of key and thirteen texts, two profiles for prefixes and five more that change one field of a client's key each (`OneAspect`), two local times, stamping that may fail | requests go out with the endpoint, path style and credentials of the loaded profile; a plain listed name addresses what it was listed from; an uploaded file comes back with its time; a foreign object gets the best of its times |

### Why the bounds are enough

* `RunTransfer`: two bytes give progress, partial progress and completion; the
  timeout spans four ticks and the blocking time spans two, so that ticks are
  dropped, delivered late, and fall on either side of the timeout. The throttle
  is longer than a tick, as in the code (250 ms against 100 ms). One rewind
  shows the counter coming back to an old value. `CallAgeBound` merges ages
  beyond which the throttle no longer distinguishes.
* `GetFile`, `PutFile`: two chunks distinguish none, some and all; two versions
  suffice for one replacement between any two steps; three attempts allow two
  failures with different causes and a success. Calls follow each other without
  bound.
* `ConfigCache`: two threads for every order of two overlapping reloads; three
  versions for a refused one between two good ones, each with or without a new
  stamp.
* `FindHandles`: four tokens, of which 0 and 3 are no handles to the host, wrap
  within three enumerations. `NoneLasts` is the one assumption: no enumeration
  stays open while the 64-bit counter comes all the way round.
* `ListObjects`: byte order puts `a`, `a-b`, `a/` in this order, with pages of two
  a file and the folder of its name fall on one page or on two; the listed
  folder's own marker, a marker and a child of the same folder, and a folder that
  has only a marker are all there.
* `ConnTest`, `DebugDialog`: two profiles for probes that end in either order, two tests for
  a second start and for results that another test replaces. Four probes and up to
  three other activities (one before a test and one after each began) in a log of two
  pass every fill level and wrap it several times; one probe and one other activity of
  a test fit in it and two probes and another do not, so that `ProbesListed` is asked
  of reports that have room and of some that have not.
* `Roundtrip`: hundredths of a second stand for nanoseconds and tenths for FILETIME
  intervals, so that a time may or may not be whole in either; ten seconds carry
  the order year 1 < 1601 < 1679 < 1970 < 2262 that the code distinguishes
  (`ZeroSec`, `WindowsEpoch`, `UsableFrom`, `UsableTo`), and `MaxInt` is exceeded by one
  text. The texts are one per convention (bare seconds, a short, a full and a finer
  fraction, RFC 3339), sign ("-0.25", "-2.019") and failure (nothing behind the
  point, too large, no number, unusable year, the zero time). Keys have a shape for
  each boundary: at the top, folder markers, nested folders with a name of the
  greatest length that fits, a longer one, an empty segment, a backslash.
  `cFileName` holds 3 characters here and 259 in the code. One object is enough,
  since the properties speak of one at a time; `MaxDepth` bounds the folders
  entered. For every field of a client's key there is a pair of profiles that differ in it,
  so that a key without it would serve one of them with the other's client. The
  constraint `OneAspect` follows the profiles that are there for this only at the root of an
  empty bucket: a client depends on the profile and on nothing else.

### Fairness

* `RunTransfer`: the select loop takes what is ready, a callback returns, time
  passes, and a work whose context is cancelled returns (the SDK and the copy
  loop honour it). A live work owes nothing: it may hang for ever.
* `GetFile`, `PutFile`: local calls and bounded remote calls return (the SDK's
  requests are bounded by the response-header timeout and its retry limit);
  `runTransfer` ends a transfer, by the result above; a cancelled download or
  upload gives up. Nothing is assumed of the user, the server or the other
  programs.
* `ListObjects`: the next page is answered or fails; keys may change without end, and a
  service need never be one that keeps a token to itself.
* `DebugDialog`: probes end by their timeout, a message that the dialog's thread
  has begun is handled. The window timer has strong fairness: it is set
  repeatedly, and disabled for moments by other messages, so weak fairness
  would let the user's clicks starve it.
* The other caller of `StartConnectionTest` (`EitherSpec`) goes on with what it has begun,
  as the dialog's thread does; it need not start a test.
* `ConfigCache`, `FindHandles` and `Roundtrip` have safety properties only.

## 4. Findings

Each is a run that TLC refutes, against a sentence of the repository.

1. `RunTransfer_late_tick` — `service.go` 660 dates a change of the counter with
   the tick's own time. After a callback that blocked for about the idle timeout
   that time is old, and the next tick can find 60 s of idleness although bytes
   moved a moment ago. Lines 55-56 say a transfer fails "once no bytes have moved
   for transferIdleTimeout". `StallBound` says by how much the verdict may be early,
   and is proved.
2. `ConfigCache_error` — after a failed `os.Stat` the reload of an unchanged file
   returns early (542) and leaves `configErr` set; line 105 says "nil once one
   succeeds". The debug report goes on showing the old error.
3. `DebugDialog_missed_end` — `dialog.go` shows the report before it polls. A test
   that ends in between leaves the text "running" with no timer, although 315-316
   says `pollTest` "shows the results once the test has finished".
4. `ListObjects_hidden_folder` — one `seen` map for files and folders: a file that
   is listed before the folder of its name hides it; `README.md` 84-86 says folders
   are exposed.

Further behaviour that the models have, that no sentence of the repository
contradicts, and that the properties exclude by a clause:

* Another program or client that writes the target *during* a call is
  overwritten although the host did not ask (check and rename, `HeadObject` and
  `PutObject` are separate). `NoUnaskedOverwrite` and `MoveLosesNothing` speak of
  calls that are not `meddled` with.
* A rewound upload that reaches the same counter value between two samples looks
  silent; `StallBound` speaks of transfers without a rewind.
* Of two overlapping reloads the older content may be committed last.
  `CallReflectsIni` speaks of calls that are not `overtaken`; `CacheCoherent` holds
  for all of them, so the next call repairs it.
* With the host's separator `\`, an object `a\b` is listed under that name, and
  opening or deleting the entry addresses the object `a/b`. `README.md` 166-167 says
  that such keys cannot be addressed. `ListedNameOpens` speaks of `Plain` names.
* A name longer than 259 UTF-16 units is cut without notice (`main.go` 34) and then
  addresses the key that has the cut name; `Plain` excludes names of full length.
* After an edit of the prefix in the INI, an entry that was listed before addresses
  another key. `ListedNameOpens` speaks of the prefix the entry was listed with.
* The enumeration that draws the token 2^64 - 1 is taken by the host for a failed
  one without an error, and its entry stays in the table; `NoLeakedHandle` and
  `FailureIsTold` name this exception.
* A FILETIME of 0, the first instant of 1601, comes back as no time; a download
  without any usable time keeps the time of its writing.

## 5. Proofs

All theorems hold for every value of the constants that satisfies the module's
named assumptions. These are: sizes and bounds are naturals, intervals positive;
results are not named like causes; the calendar is in order; there are finitely
many profiles (the INI is a file) and finitely many keys (S3 limits a key to 1024
bytes); two keys of one rank are one name's, of one kind or a folder's marker and
a child; a profile's name is not empty and has no separator (`config.go` 57-62). The
runs evaluate all of them. `tlapm` checks every proof to its leaves.

| Module | Theorem | Argument |
|---|---|---|
| `RunTransfer_proofs` | `TypeCorrect` | inductive; percentages stay in 0..100 by a division lemma |
| | `StallsAreBounded`: `[]StallBound` | `lastMoved` is never later than the change it dates, and earlier by no more than a tick can be overdue. The invariant bounds `movedAge` by `quiet` plus the lateness at the last sample, and `idleFor` by `silence` plus `MaxBlock`, as long as the counter has never been turned back (a counter that only grows shows every change) |
| | `PromptStallsAreTrue`: with `MaxBlock = 0` and no rewinds `[]StallMeansSilence` | from `StallsAreBounded`: finding 1 needs a callback that blocks |
| | `StallsAreNoticed`: `[]StallNoticed` | the counterpart, by `QuietBound` and `IdleBound`: a change that was not sampled yet is no older than one interval, and `movedAge + due`, what the clock will show at the next tick, stands still while time passes; only a tick moves it, by at most an interval and a callback, and the last tick did not condemn it |
| | `CancelIsResponsive`: `[]CancelResponsive` | `OfferBound`, the same for `callAge + due`: the last tick was throttled or called the host, whatever the counter says |
| | `ImplementsTransfer`: `Spec => T!Spec` | step by step; the callback is part of the wait |
| `GetFile_proofs` | `TypeCorrect` | inductive |
| | `DestinationAlwaysWhole`, `AnswerTellsDelivery`, `WriterAlwaysGone` | `SafeInv`: from `close` on the temporary file holds one version completely; a running goroutine implies that the call waits; `delivered` determines where the call can be |
| | `StampsMatch` | `StampInv`: the stamp of a temporary file is that of its own version, or the listing's, which is used only when the response has no time |
| | `ReplacesOnlyWhenAsked`, `MovesLoseNothing`, `OkMovesAreDone` | `UnmeddledInv`: without meddling the destination is what `Stat` saw until the rename and what was downloaded after it, the object is the one that was downloaded, and it is gone when a move has answered OK |
| | `ImplementsTransfer`: `Spec => T!Spec` under the mapping of `TransferRefinement` | `TransferInv`: nothing of an earlier transfer is left when getFile is outside of one and has no verdict; every step is one of `Transfer`'s or leaves its variables alone |
| `PutFile_proofs` | `TypeCorrect` | inductive, with what a cancellation leaves behind |
| | `ReadErrorsAreCurrent` | `ErrorInv` over `AttemptInv`: `readErr` is set only in an attempt that has failed locally and is cleared by the rewind before the next, so that it agrees with the last failure whenever the call looks |
| | `StampsAreNotNewer` | `TimeInv`: the time is taken before any chunk is read and versions of the file only grow; it covers the copies the server still holds |
| | `AnswersOkWhenStored`, `ReplacesOnlyWhenAsked`, `MovesLoseNothing`, `OkMovesAreDone` | `UnmeddledInv`: without meddling the file is the version that `Stat` saw, what is stored is the attempt's own request, and behind the check the object is absent or this call's. `OkMovesAreDone` (`MoveIsDone`) is a conjunct of `OkMeansStored`, and in the download of `StatusTellsDelivery`. `AttemptInv` carries "stored" from the attempt to the answer |
| | `ImplementsTransfer`: `Spec => T!Spec` under the mapping of `TransferRefinement` | as for the download; attempts, retries and late commits do not show |
| `ConfigCache_proofs` | `TypeCorrect` | inductive, for any set of threads |
| | `CacheAlwaysCoherent` | `CoherenceInv`: what a thread has loaded is at least as new as the stamp it took before, so a stamp equal to the newest version vouches for the newest content. It is not inductive without the threads' locals |
| | `CallsReflectIni` | `CallInv`: the early return is taken only with the stamp the cache had when the call began; without a commit in between the cache still has it |
| | `OnlyValidIsUsed`: no call uses an INI that `Load` refused, a conjunct of `CallReflectsIni` | `ValidInv`, `EmptyInv`: only accepted versions reach `cfg` and `config` |
| `FindHandles_proofs` | `TypeCorrect` | inductive, for any threads and any number of tokens |
| | `EnumerationsKeepApart`, `HandlesAreOwned` | `IInv`: `Placed` says where the counter stands relative to each open token, counted in `opens` and over the wrap with 0 left out, so that a fresh token is nobody's (`FreshIsFree`); `Owned` and `Snapped` then keep tokens distinct and every table entry the owner's own snapshot. Neither property is inductive alone: without `Placed` a wrapped counter could hit an open handle |
| | `FailuresAreTold` | from the steps: `SetFindError` follows the callbacks |
| `ListObjects_proofs` | `TypeCorrect` | inductive; a page is finite, so that its last rank exists |
| | `NothingIsOverlooked`, `NamesAreShownOnce` | `ListInv`: `seen` is the names of `entries`, and the name of every key of `steady` up to the token is in `seen`; with `cutShort` false the last page reaches the end of the bucket. `PageUpToToken` says of a page that it leaves out nothing between the two tokens, whatever the page size; it is proved from `RanksAreFinite` and the existence of highest and lowest ranks, by well-founded minima instead of induction. Neither property is inductive alone |
| | `TokenMovesForward` | from `PageUpToToken`: the safety half of `ListingEnds` |
| `DebugDialog_proofs` | `LogTypeCorrect` | inductive |
| | `RingKeepsRecent`: `LogSpec => R!Spec` | the slot of the i-th newest entry after an `Add` is that of the (i-1)-th before it, by modular arithmetic in a lemma |
| | `TypeCorrect` | inductive, for the dialog, the test and the log together |
| | `ResultsAreComplete`, `ProbesEndWithTheirTest`: `TestSpec => …`, for every caller | `ConnInv`: while the caller's thread is between the first lock and the snapshot its test runs and no test has goroutines (`StarterAlone`), which is what keeps two sets of goroutines apart. A start that finds a test running changes nothing |
| | `DialogDrivesTest`: `Spec => TestSpec` | every step of the dialog is one of the test's caller, of its goroutines or of neither |
| | `ClicksStartTests` | `DialogInv`: whenever the dialog waits with its timer off, or is about to, no test runs; behind its back a test can only end (`BackgroundEndsTests`) |
| | `OpenDialogAnswers`, `FontsAreReleased` | only `Closed` and `CreationFails` clear `active`; `FontInv`: one font exists while `font` is set, and none otherwise |
| | `LogKeepsRecent`: `TestSpec => RecentRefinement` | every step of the test or of another operation is a step of the log or leaves it alone, and then as for `RingKeepsRecent` |
| | `ReportsListProbes`: `[]ProbesListed` | `ListedInv`: the probes a test has recorded are among the newest activities, as many as it has recorded and other operations have since it began, by `StaysRecent` (an `Add` moves every other activity back by one place). `ReportInv` adds that between the two sections of a report the dialog's thread starts no test, so what the first section called finished still is |
| `Roundtrip_proofs` | `ModTimeRoundTrips`, `FileTimeRoundTrips` | integer arithmetic, by the sign of the second and whether a remainder is left; the latter by division lemmas |
| | `ParsedTimeIsMeant`: `ParseModTime(text) = Meaning(text)` for every text | `FractionIsMeant`: padding or cutting the digits is a division of the whole value, for every scale; then by sign, where Go's division towards zero and `time.Unix`'s normalisation have to meet |
| | `TypeCorrect` | inductive, for any alphabet |
| | `RequestsFit` | `ClientsFit`: every client was made for the key it is kept under, and the key has all that a client is made from |
| | `UploadsKeepTheirTime` | `SourceWritten`: the metadata of an uploaded object is the form of its source's time, and `ModTimeRoundTrips` reads it back; needs `TimesTyped` for what passes through the host |
| | `BestTimesWin` | `TimesTyped`: what was listed is the `FileTime` of the object's time then; with `ParsedTimeIsMeant` and `FileTimeRoundTrips` the three candidates are the meanings that the property names |
| | `ListedNamesOpen`: `[]ListedNameOpens` | `PathsInv`: a folder reached by plain names has a path `<sep>profile` or `<sep>profile<sep>below`, where `below` is a string that neither begins nor ends with a separator and has none of the other kind; an entry was listed from the prefix of its folder and a name without slashes, cut to `cFileName`. `ParseSplits`, `RestSplits` and `LevelBelow` follow such a path through `ParseRemote`, `TrimNothing` shows that the trims take nothing away, and `FolderOpens` puts both sides together by associativity of concatenation. `plain` has to be remembered: one cut name on the way makes the property false |

The conjuncts of these invariants that TLC can evaluate were checked on the runs'
instances before they were proved; `PathsInv` quantifies over all strings and is
only proved. `Joined` is concatenation under a name of its own, since the provers
do not chain equations between concatenations otherwise. The type
invariants and `NoWriterLeft` are no longer part of a run: their theorems are
stronger.

**Model-checked only.** All liveness (`Returns`, both `CallEnds`, `ListingEnds`,
`TestEnds`, `PolledTestIsShown`): fairness and `ENABLED` are beyond the prover. For
`ListingEnds` the step that an adversary could break, the token's, is proved. All
other properties of the passing runs are theorems.

## 6. Not modelled

* *INI scanner* (sections, keys, comments, duplicates) and the validation of a
  profile's fields: `Load` accepts or refuses a version as a whole. What it makes of
  prefix and region is in `Roundtrip`.
* *Content types*: one lookup in a constant table.
* *Retries, dial and response-header timeouts of the transport*: external; the
  attempts of an upload are in `PutFile` as far as `countingReader` sees them.
* *A change of the INI's path*: hosts set it once, before any operation.
* *The rest of the report's text, clipboard, opening the INI, window layout, dialog
  template, version resource, build scripts, ABI smoke test, SDK headers*: no state
  of the plugin depends on them.
* *`FsInitW` and the callback pointers*: glue; `ResetConfig`, which it calls, is in
  `ConfigCache`.
* *A panic inside `StartConnectionTest`*, after its first lock: the code has none.
  `Panic` stands for one in the report or the poll.
* *FreeBSD*: there is no dialog; the report is shown once and no test is started
  (`main_freebsd.go` 261-273), and its find exports set no last error, so
  `DebugDialog` and `FailureIsTold` are about the Windows build. All other modules
  are common to both; `Roundtrip` has the separators of both hosts.

## 7. Plan

The order put first what loses data or hangs the host: the transfer, the two
directions, then the state shared between threads, then listings and the dialog,
and then what passes through the host between the calls. What would come next:

1. *Ranking arguments* for the liveness properties, in the manner of
   `TokenMovesForward`: that every fair step of a transfer and of a test decreases a
   measure can be proved, only the temporal conclusion cannot.
2. *INI scanner* as operators over lines, with duplicates and defaults.
3. *The adapter of Double Commander* where it differs from that of Total Commander.
