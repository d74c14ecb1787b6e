# call-me-maybe in TLA+

`doorman` answers a household's telephone. Asterisk carries the calls and hands
each of them to doorman over ARI (a REST interface and one event WebSocket);
doorman decides who is welcomed, who is asked for an extension or a sum, which
handsets ring and in which order, and who is sent to the mailbox or sent away.
It also journals what it observed, and it keeps its policy, its reminders, its
recordings and its cloud account in step with other programs.

These modules model the parts of it where several things happen at once or
where something may fail half way. `PROJECT.json` ties every definition that
stands for code to the lines it stands for.

Contents: [the system](#the-system) · [the modules](#the-modules) ·
[the models and the code](#the-models-and-the-code) · [the runs](#the-runs) ·
[fairness](#fairness) · [the proofs](#the-proofs) ·
[what the code does otherwise than it says](#what-the-code-does-otherwise-than-it-says) ·
[what is not modelled](#what-is-not-modelled) · [the plan](#the-plan)

## The system

### How the parts interact

```
 phones, trunks            +--------------------- doorman -----------------------+
      |                    |  router --> registry --> session (one per call)     |
   Asterisk  <--REST------ |    ^                        |   \--> limiters       |
      |      --WebSocket-> |  ARI client                 v                       |
      |                    |                 call log, webhooks, event journal   |
      +--CEL spool-------> |                                     |               |
                           +-------------------------------------|---------------+
   doorman inbox, phonebook, backup (other processes) --append-> SQLite --> doorbell
   AGI processes (player, reminders), voicemail hook, podcast worker: files, locks
   account / edge (hosted)  <--poll, bell--> sync, media, upload, inbox
```

- Asterisk's events arrive on one socket and are read by one goroutine, the
  *router*, which never blocks: it posts to a session's bounded queue and drops
  what does not fit.
- Each call has one *session* goroutine. It makes one ARI request at a time and
  waits on its queue, a timer or the cancellation of its context.
- The router cancels a session's context when the caller leaves. A request made
  under a cancelled context is not sent, or its reply is thrown away.
- Sessions of one line share two rate limiters under their own locks, and all
  parts post to the journal, whose queue never makes them wait.
- The daemon polls the files it runs on: policy, passes, address books. Other
  processes write them: the household's editor, the sync commands, the inbox,
  the worker. They meet in files replaced by rename, in locks and in SQLite.
- The hosted account is polled. It queues commands for the box and keeps what
  the box answered, and its bell only shortens the wait for the next poll.

### Inventory

| component | state it keeps | operations | what is hard about it | what makes it correct |
| --- | --- | --- | --- | --- |
| Ringer ladder (`lobby/session.go`, `release.go`) | legs, bridge, release of the channel, queue, record | dial a rung, bridge the winner, hang up siblings, hand off, dismiss, clean up | answers race timers, other answers and the caller's departure; a request may take effect and its reply be lost | one winner; nobody left holding a handset; a released caller is never hung up; one record per call; every wait ends when the caller leaves |
| Router and registry (`cmd/doorman/main.go`) | callers, legs, places taken | admit, route, remove, orphan hangup | a leg may answer before or after the registry knows it | an event reaches the session that owns the channel, or an orphan is hung up |
| The door (`session.go`, `collect.go`, `challenge.go`, `menu.go`, `ratelimit.go`) | entry, attempts, plays, verdict; failure times by number | tier, collect a PIN, walk menus, ask a sum, count failures | barge-in, silence and `*` at every exit; several calls of one number at once | guarded choices lie behind the sum; guesses are bounded; admitted callers reach the house; a menu ends |
| Bedtime (`curfew.go`, `render.go`, `policy`) | windows, do-not-disturb, calls that are up | gate calls, drop them at the hour, render the dialplan | three readers of one schedule; an edit or a restart at the hour | a sleeping phone is left alone; daemon and dialplan agree |
| Lines, trunks, console (`lines.go`, `trunks.go`, `console.go`, `numbers.go`) | trunk inventory, rendered plant, number keyed | edit, render, audit, call out | one file edited before the others; a trunk that is down | an emergency call finds a way out; no line shows a number it does not own |
| Balance alarm (`balance_ring.go`, `announce.go`) | what was rung about | ask providers, ring phones in order, remember | `StasisEnd` there means success; a phone that never answers | remembered only when a phone was told |
| Player (`books/agi.go`, `listen.go`) | place in a book, time used | page, play, pause, keep the place | a hangup inside any command; a limit that expires under a prompt | nobody is played past the limit; a bookmark is where they stopped |
| Phone games (`phonegame/room.go`) | seats, invitations, bridge, queue | join, invite, talk, ask, end | the manager routes while the room waits | nobody is left ringing or alone; who only listens is silent |
| Provisioning window (`provision.go`, `provision/serve`) | rendered files, listener, queue, certificate | render, serve, wait for registration | a bounded queue that drops; a crash between two files | the window's report is true; certificate and key are a pair |
| Policy, its store and last good copy (`policy`) | policy in service, copies, link | compile, reload, adopt, fall back, rotate PINs | a bad file during a reload or at start; an upgrade with stricter rules | a running house never loses a policy it had; a policy accepted has no dead end |
| Lobby passes (`lobbypass.go`) | the book in force and its copy | look, accept, refuse, start | books delivered one at a time | only an accepted book admits |
| Event journal writer (`events/writer.go`, `store.go`) | queue, pending losses, degraded and clean flags | post, flush, append, close, start | full queue, failing storage, crash, shutdown deadline | no loss goes unsaid; a clean journal owes nothing |
| CEL ingestion (`events/cel.go`) | source, cursor, states of channels | read a batch, commit | a replaced, restored or trimmed source | every number told once or counted in a gap |
| Journal's readers (`store.go`, `doorbell.go`, `sibling.go`) | rows, delivery state, cursor | prune, page, announce, append from another process | lost acknowledgement; rows pruned under a reader | nobody is acknowledged what they were not told |
| Account client (`account/store.go`, `sync.go`, `client.go`) | enrolment, tokens | log in, rotate, sync, settle | replies lost at every save; two requests at once | while the service holds the enrolment, the box stays signed in and its next token is taken |
| Sync machine (`syncmachine`) | ledger, revisions, generation | publish, fetch, plan, apply, answer | crash between apply and answer; local edits meanwhile; a ledger lost | applied at most once, never over a newer edit; answered after its snapshot |
| Sync loop and bell (`bell`, `sync.go`, `sync_follow.go`) | socket, pace, kicks | pass, dial, follow up | three goroutines and one-slot channels | no command waits at the slow pace; no receipt is left alone |
| Bundle upload, backup, recovery (`account/upload.go`, `backup`, `recovery.go`) | pending upload, copies, generations, operation | reserve, transfer, complete, deliver, prune, restore, confirm | a stop at any write; a truncated copy | what is reported is stored; a restore loses nothing; the current phrase is in hand |
| Media delivery (`mediadelivery`) | outbox of receipts, installations | list, fetch, install, tell | overlapping passes, lost replies | a story told once and in order; installed means installed; a bad source holds up no other |
| Edge inbox (`inbox`) | messages seen, shelf, questions | pull, act, ask, save, acknowledge | delivery at least once; silence as an answer | a text acts once; a card is saved, kept or given up; a refusal that was sent stands |
| Voicemail mail (`voicemail`) | list of what was mailed, lock, links | pass over a box, mail, play | slots renumbered meanwhile; two processes | mailed once, to its own box; the link plays what it was made for |
| Reminders (`reminder`) | records, recordings, call files | commit, ring, cancel, prune | cancel racing the ring; Asterisk's own retries | rings once, at its time, never after a cancel |
| Packs (`pack`) | versions, cache, environment file | build, check, install, use | a kill at any step; a restart that fails | no call plays half a voice |
| Library and podcasts (`books`, `podcasts`) | editions, catalog, feeds | prepare, import, publish, reap, refresh | callers read while publishers write | the catalog names what is there; a refresh takes nothing away |
| Directories and address books (`phonebook.go`, `contacts`) | composed books, fingerprints, copies with tags | compose, push, confirm, fetch, merge | books change between two reads; a fetch fails half way | a directory is of one version; half a book is never seen |
| Webhook notifier, call log (`notify`, `calls`) | bounded queues | post, deliver, write | full queue, slow receiver | a call never waits for them |

Rendering, provider encodings, voice and story tooling, setup and the web pages
are conversions or scripts without a protocol of their own; `PROJECT.json` lists
each with the reason it is not modelled.

The hazards — what can go wrong in this code that a test would hardly reach —
are listed in `PROJECT.json` at the lines where they bite, each with the
properties that would catch it or a note saying why none does.

## The modules

Calls:

| module | what it is |
| --- | --- |
| `CallPromise` | the abstract specification of one call: who owns the caller's channel, who ended it, how many records, whether it is finished |
| `RingLadder` | one call from the ring plan to cleanup, with the router, the registry and as much of Asterisk as the session sees; it implements `CallPromise` |
| `LobbyDoor` | several calls of one line from arrival to the decision what rings, with the shared limiters |
| `Bedtime` | one week of a child's phone: curfew, do-not-disturb, the gates of calls and the drop at the hour |
| `WayOut` | trunks, lines and numbers as edited, as rendered and as dialled; the `*4` console; the audit of what a provider holds |
| `CreditAlarm` | the morning's question to each provider and the phones it rings |
| `ListenIn` | one call in the recording menu, its limit and its bookmark |
| `PhoneGame` | one room of the phone game with its seats and invitations |
| `PhoneWindow` | the window in which phones fetch their configuration |

What the house runs on:

| module | what it is |
| --- | --- |
| `HousePolicy` | the rules a policy is compiled under, and what a caller then can walk to |
| `PolicyStore`, `LobbyPass` | the policy and the pass book in force, their copies, edits, crashes and upgrades |
| `PackStore`, `PackAuthor` | voices: from an author's scripts to an archive, and from an archive to the version calls hear |
| `BookLibrary`, `PodcastWorker`, `MediaDelivery` | editions and their catalog; feeds and what stays ready of each; deliveries and their receipts |
| `PhoneBook`, `ContactBook` | directories pushed to phones; address books fetched, copied and merged |

What the house keeps and tells:

| module | what it is |
| --- | --- |
| `EventJournal` | the journal's writer, its producers, its store and its process, over several lives |
| `CelIngest`, `JournalReaders` | Asterisk's own log on its way into the journal; retention, doorbell, pages and summaries |
| `AccountStore`, `SyncMachine`, `SyncBell` | the box's credentials; the commands of the web; the pace of the passes |
| `BackupUpload`, `BackupRun`, `RecoverySheet` | a bundle on its way to the account; a backup run and a restore; the phrase that opens them |
| `InboxReader`, `Reminders`, `VoicemailMail` | texts to the house number; reminders keyed by telephone; mails about voicemail |

Checked together: `MCCalls`, `MCDoor`, `MCJournal`, `MCStores` and `MCLive` are
the instances of the suites below; `MCRingLadder` and `MCVoicemailMail` are those
of runs that find a disagreement (the other such runs use a suite's module, or
the component's own). Proved about: `RingLadderProofs`, `LobbyDoorProofs`,
`AccountStoreProofs`, `SyncMachineProofs`, `SyncBellProofs`,
`BackupUploadProofs`, `JournalReadersProofs`, and `JournalProofs`, of the
journal's writer and of the suite `MCJournal`.

`LobbyDoor` ends where `RingLadder` begins: what it calls *over*, with an
outcome, is a call of `runPlan`, `sendToVoicemail` or `dismiss`, or the release
to a shelf in `listen`. The two are separate because they share nothing but the
caller's departure: the door's calls meet each other in the limiters, the
ladder's meet only Asterisk.

## The models and the code

Each module names its files in its header, and a definition keeps the name of
the function it stands for where TLA+ allows it. Five conventions hold in all.

- A step is what the code does between two points where another goroutine,
  another process, the network or a crash can be noticed: a request and its
  reply, a read of a file and the write that follows, a rename, a commit. What
  one lock covers and nothing else reads is one step.
- What Asterisk, a provider or the hosted service does is marked external, in the
  map or beside the variable that holds its state, and is what the code in `src`
  expects of it. A person edits files, dials, hangs up or waits at any moment.
- A content is a number or a name. A hash or a tag is the content it was taken
  of, so two of them are equal when the contents are.
- Mishaps (a lost reply, a failed write, a crash) are counted by one variable
  and bounded by one constant; each bound is marked *bound* where it is declared
  and stands in the guard of what it bounds.
- A variable without a counterpart in the code is a history: it records what
  happened, so that a property can speak of it.

### RingLadder

Three parties interleave.

- **The session** (`runPlan`, `ringStep`, `bridged`, `fallback`,
  `sendToVoicemail`, `dismiss`, `cleanup`). `pc` is where its goroutine stands;
  each ARI call is a step. A call whose reply carries something the session
  keeps — the bridge's id, a leg's id, whether the caller was released — is two
  steps, request and reply, since the caller can go between them; a cancelled
  context, or a lost reply (`ReplyLoss`), makes the reply an error although the
  request took effect. A request under a cancelled context is not sent.
- **The router** (`route`, and the registry's `byChannel`, `addChannel`,
  `remove`). Events are read in the order they were sent. `CallerLeft` is two
  steps because it confirms the release before it cancels. An answer that
  belongs to no session starts an orphan hangup, a goroutine of its own.
- **Asterisk and the people**: legs are answered, end, the caller hangs up, a
  bridged handset transfers the caller. These are inferred from how the code
  uses ARI and are marked external in the map.

A leg is named by its rung and its handset, since a rung dials each handset
once. `release` is `channelRelease`; `legs` and `dialled` are the session's map
and the rung's own; `queue` drops what finds it full, as `post` does.

Left out: stage records, notifications and observations other than the record
and the handoff; ringback and its stop; the mailbox variable; the empty ring
plan (`fallback` at once). A leg's two end events are one, the session taking
the second for nothing. `cleanup` runs on a context of its own and its requests
are taken to reach Asterisk. A parting prompt ends. Sleeping, do-not-disturb and
unreachable handsets are one step, `SkipHandset`. A blind transfer is modelled,
an attended one is not.

### LobbyDoor

A call is a record, and an operator from records to records is what one function
of the session does to its call. `Arrive` is `admit` into a free place under
`MaxConcurrentCalls`; `Greet` is the ladder's last tier with its budget;
`Handle`, `Wrong`, `Right` are `collect` and `evaluate`; `Ask`, `AnswerKey`,
`Failed`, `Solved` are `challenge` and `collectDigits`; `Offer`, `MenuPlay`,
`MenuChoose`, `TakeChoice` are `walkMenu` and `menuKey`; `Listen` is the release
to a shelf; `Disposition` is `noInput` and `disposition`.

An entry is its length, and whether it is somebody's PIN, or the sum's answer,
is the caller's luck. Keys are read as they are pressed: the digits that wait in
the event queue between two prompts are not modelled. A disabled extension is
a key without a choice. `waited` stands for a timer that key presses restart.
The clock moves only when the two limiters can tell; what happens after the
call was handed on is `RingLadder`'s.

### EventJournal

Observations are counted, not looked at. The daemon starts the writer with
`StartChecked`, so no producer runs before the journal is open. `Post` is one
step, as it holds the writer's lock; the flush is three (`LoadPending`,
`AppendGap` or `GapFailed`, then the observation's own row), for posts come in
between. A statement that reports an error is taken not to have committed, and
the append of a gap row and the subtraction from the counter are one step.
`Close`, its deadline, a crash at any moment, and a storage that stops working
and comes back are actions. `lost`, `excess`, `forgotten`, `owed` and `late` are
not in the code: they follow what became of the observations, so that the
properties can say what the rows must add up to.

### AccountStore

`v` is `tokens.bin`. A command (`login`, `rotate`) holds the lock from its first
read to its last save and works on a copy; `SyncCredential`, `Settle` and the
bell's take it only to read and to settle, so a request in `caller` carries the
credential it was sent with, and a reply may be settled on a store that has
moved on. On the service a successor is committed by its first use, after which
the predecessor passes for a stolen one and revokes the enrolment.

### SyncMachine

`ledger` is the table of intents and receipts, `echo` the generation and revision
of the box's own files, `pass` where `apply` stands and with which command. The
phases follow `apply.go`: `Publish` the snapshot, `Fetch` the queue, `Look` at
the ledger, `PlanFirst` or `PlanAgain`, `Compare`, write and `Rename`, `Finish`,
`Latest`, `Receipt`. A person's edit and a crash may fall between any two. Two
files stand for all: `own`, the inventory, and `book`, one book the account
delivers; a command is a sequence of verbs on them, tried on a copy until one is
refused.

### The other components

What each module models, and what of its component it leaves out, is in the
note beside the component in `PROJECT.json`; the choices a reader might ask
about are these.

- `Bedtime`: the day is a few slots for its minutes and the week a few days; the
  same windows are read by the lobby, by the rendered dialplan and by the keeper
  that drops calls, each in its own way.
- `WayOut` and `HousePolicy`: a file is a record of sections, edited one field at
  a time; the values offered for a field hold a right one, a wrong one and one
  of the wrong shape.
- `CelIngest`: a row's time is its position in the history of Asterisk, which a
  restored copy of the spool does not repeat.
- `InboxReader`: one sender and one house number, hence one place on the shelf;
  time counts in units of the quiet period. `declined.told` are the cards whose
  refusal was sent: a sender who may not use the words, or no longer may, is sent
  none. The mark of a handled text may fail to reach its file, which the reader
  does not look at.
- `BackupUpload`: an address a bundle is sent to has its time, after which the
  command fails and keeps what is pending; a refused credential asks for a
  login, and a login drops it (`client.go:250`). That the service gives up a
  reservation it never got is external.
- `JournalReaders`: a page reads at most `ScanLimit` rows and filters them
  afterwards, so that a page may be empty and still not be the last.
- `Reminders`: a moment shows a time on the wall, which may be shown twice or
  never; the process may end between the answer of a reminder and its claim.
- `PhoneBook`: the fingerprints are taken, and the books read, file by file; any
  file may change, or change back, in between.
- `ContactBook`: a card is a sequence of tokens, so that a cut or damaged book
  can be read as the code reads it.
- `PackStore`: a rendering is a take; no two sound alike and a checksum names
  one.
- `BookLibrary`: one library, of books or of podcasts, with any number of
  publishers and callers.

## The runs

Five suites check what holds and seven runs show one disagreement each. In a
suite, `part` is chosen at the start and one component moves in a behaviour;
its variables are the registers `r1`, `r2`, ... and each property of a suite
speaks of one part. So the states of a suite are the sum of its components', not
their product, and nothing of one component can hide in another. `MCLive` gives
each component variables of its own, because fairness is a matter of the
variables it is stated about.

Every bound is a constant in the `.cfg` or in the `INSTANCE` of the MC module. In
`MCJournal` the constants of the components that have theorems are the module's
own, with `SuiteAssumption` about them, so that the theorems of `JournalProofs`
are about every instance of that suite and `Journal.cfg` checks one. Three of its
bounds stand in the steps of the suite, where two features of one component are
each looked at closely but not multiplied: which commands are queued together
(`Orders`), which texts meet two mishaps (`TwiceMixes`), and how many reminders
go through the repeated hour.

### `calls`: the telephone

| part | bounds, and why they are enough | property |
| --- | --- | --- |
| `ring` | rungs `{Kitchen, Den}` then `{Kitchen}`, a mailbox: siblings, a handover between rungs, a phone rung twice, a last rung to fall back from. A queue of 64 never fills, as in practice; nothing is lost | `TypeOK`; `NobodyLeftHolding`: when doorman ends a call every handset picked up late is still to be told or being hung up as an orphan; `OnlyTheWinnerTalks`: one handset is joined, and none to a call on record as unanswered; `NeverKillsHandedOff`: a caller the dialplan owns is hung up only by the far end; `ForgottenLegsAreGone`: while the caller is there a leg is forgotten only when it is no more; `KeepsPromise`: it implements `CallPromise` |
| `bed` | a child's and the parents' phone, three days of three slots, two calls, one edit, restart or do-not-disturb at any slot; windows within a day, over midnight, up to midnight, and one that ends where it starts | `BedtimeHolds`: a sleeping phone is left alone whichever way a call comes, calls that are up are dropped at the hour, daemon and dialplan agree on it but for a window that ends where it starts |
| `way` | every edit of one field of a working house, a render at any moment; an account of four numbers in pages of two | `WayOutHolds`: an emergency call finds a way out over what is up, no call shows a number its trunk does not own, the audit is true |
| `window` | three phones, one without an address; a queue of one, so that it drops | `WindowHolds`: no phone is reported that did not fetch, no certificate goes with another key |
| `credit` | a phone and a group, one failure, one day and the next tick | `CreditHolds`: remembered only when a phone was told; phones ring in order up to the first that hears it |
| `listen` | two chapters of three units, a limit of six: a limit expires in every prompt | `ListeningHolds`: nobody is played past the limit, a bookmark is where they stopped |
| `game` | a host, a stranger and one invited handset, a queue of two, one failure: among them an invitation that rings although its reply was lost | `GameHolds`: no invited handset is left ringing or alone, but one whose invitation lost its reply; who only hears is silent, each answer has a button |

### `door`: who is let in

| part | bounds, and why they are enough | property |
| --- | --- | --- |
| `door` | two places, one redialling stranger, PINs of one and two digits, one retry, a budget of two, a clock that moves by one window: each limit is reached and passed | `DoorHolds`: types; nothing behind a sum is reached without it; guesses within a window are bounded by the budget and what the calls under way may still use; a solved sum forgives no PIN; admitted callers reach the house |
| `menu` | one call of a stranger, an admitted or a blocked caller; a front menu with a guarded extension, a second one with a recording and a guarded mailbox; three plays | `MenuHolds`: guards and admitted callers again, on every walk |
| `rules` | two edits of one field, from a policy that compiles: an error, and one that only the other makes an error | `RulesHold`: a policy accepted has no dead end, and its warnings name exactly what nobody can walk to |

### `journal`: what is kept and told

| part | bounds, and why they are enough | property |
| --- | --- | --- |
| `journal` | a queue of two, four posts, two failures of the storage, three lives: overflow, failed flush, crash and restart in one behaviour | `TypeOK`; `JournalIsHonest`: a clean journal owes nothing, no loss goes uncounted, doubt comes before the first row |
| `cel` | two channels, three rows in a spool of two read two at a time, room for the state of one channel, two mishaps: a replaced, restored or trimmed source | `CelHolds`: every number is told once or counted in a gap, no call is summed up without its beginning, no reused number is passed over |
| `readers` | three rows retained of four, two targets, a page of one and a scan of two: a scan that is full of rows the page leaves out, and a deletion under it | `ReadersHold`: nobody is acknowledged what they were not told, a page skips no row of a call, one summary per call |
| `sync` | a command that gives a book and names it and one that drops it, each with its verbs in one order and in the other; one revision remembered, one edit, one mishap (crash, lost call, failed write, lost ledger, expiry) | `SyncHolds`: applied once, over what its author saw, answered only after its snapshot; a handset is left naming a missing book only by the first write of a command whose verbs are in that order |
| `bell` | one command, one loss, one new credential | `BellHolds`: no command waits at the slow pace because of when it was queued, no receipt is left without somebody who looks |
| `account` | two callers beside the commands, two enrolments, four tokens, two losses: a rotation within a rotation's late reply | `AccountHolds`: while the service holds the enrolment live, no late answer signs the box out and its next token is taken; the service revokes it only for a request that a rotation overtook |
| `upload`, `backup`, `recovery` | two bundles and three mishaps: lost requests and replies, stops, addresses past their time, refused credentials; two sets of destinations, one kept by day and one by week; two boxes, two generations, two mishaps | `UploadHolds`, `BackupHolds`, `RecoveryHolds`: what is owed can be read and what is reported is stored; *verified* is true, pruning leaves a newer one, a restore loses no version; the current phrase is in hand, a restored root is whole or absent, an operation is forgotten when settled |
| `inbox` | eight mixes of texts that meet (two cards; a card and an answer, a cancel, a damaged card, ...), two attempts to save, one mishap, in two of the mixes two: a lost mark and then a crash | `InboxHolds`: a text acts once unless its mark was lost; what the edge was told is handled is in a book, on the shelf's disk or given up; a card whose refusal was sent stays out |
| `reminder` | two jobs, two menus, one place, two tries of Asterisk; a wall clock that repeats an hour and leaves out another, both keyed; one mishap; two calls and two reminders up to the hour's first time, one of each through its second | `RemindersHold`: rings once, with its recording, never after a cancel, and at the first moment to come that shows the time keyed |
| `mail` | two messages, two boxes, two processes, one mishap, which may be a `voicemail.conf` that cannot be read | `VoicemailHolds`: mailed once, to its box's own addresses but by a process that could not read them; the link lasts its days and serves only the family's networks |

### `stores`: what survives

| part | bounds, and why they are enough | property |
| --- | --- | --- |
| `faults` | the ladder with a queue of one and any event lost | `LostEventsHold`: a call is held longer, but no unanswered leg is bridged and none forgotten unhung |
| `policy`, `pass` | two edits and two stops between any two reads; stricter rules after an upgrade | `LastGoodHolds`: the copies are whole, their policy was accepted, and so were their trunks unless they were edited while the copy was made; who rings straight through was accepted |
| `pack`, `author` | two archives of two clips, four takes, three kills or failures; two clips of two wordings, three edits under a build | `PackHolds`: no call plays half a voice, or other words than the script's unless a build was killed over them; what is reported switched plays; a hand edit is lost only between a read of the file and the write that follows |
| `lib` | two publishers and one caller, three editions of two titles (one a preview, one damaged), three commands, each killed anywhere | `LibraryHolds`: what is listened to stays, the catalog names what is there, an import takes no title away |
| `podcast` | two feeds, of one episode and of two, one edit or damage, failures at every request | `EpisodesStay`: a refresh, failed or not, leaves as many episodes as were ready |
| `media` | two sources of one delivery each and two passes, two faults; one source of three deliveries, the second of them damaged | `DeliveryHolds`: installed when reported, told once and in order, no source holds up another; after a bad delivery those listed behind it wait |
| `books` | two phones that move, also to each other's address, while a book changes; an inventory and a book that change, and change back, while they are read; two recordings filed by telephone | `BooksHold`: a directory is of one version of each file and of one moment unless a file was put back, what counts as delivered is what the phone holds, a name stays |
| `contacts` | two versions of a book, one with damaged cards, at two addresses: one asked by tag, one by date; a server that goes back; a feed that moves, is named twice or is taken, and a file copied in; one fetcher, two edits, two failures | `ContactsHold`: a fetched book in use is whole, its tag is never newer than its copy, a copy said to be current is what its address serves but where a fetch was cut or the address moved; merging and cutting lend a card nothing |

### `live`: what must happen in the end

Instances small enough for every cycle to be looked at: one phone then the other,
without a mailbox; two menus without sums; one writer of three posts and two
lives; one command; two bundles and two mishaps; two edits of the files the daemon
runs on and one restart, or three edits: one undone while the daemon reads it.

- `CallsEnd`: a call ends when its caller leaves or nobody answers, and a caller
  who presses nothing is let out of every menu.
- `RowsAreTold`: a loss the writer knows of is told in the journal and every row
  is announced, if disk and network come back.
- `CloudAnswers`: no command, bell or bundle is stuck behind a failure that is
  over.
- `DaemonCatchesUp`: the daemon comes to run what is written well on the disk, unless
  a file came and went between the stamp and the read: what is there was then
  not what was tried, and stays so until the next edit.

### What the seven others show

| run | question | bounds |
| --- | --- | --- |
| `ring_reply_lost` (*NeverKillsHandedOff*) | can doorman hang up a caller it gave to the mailbox? | one rung, lost replies |
| `ring_late_answer` (*LateAnswerNeverWins*) | can an answer of an earlier rung win? | one phone, then the other |
| `ring_stranded` (*EveryLegHungUp*) | can a handset be left in the application for good? | one rung of two phones, no mailbox |
| `door_menu_held` (*MenuEnds*) | does a menu with sums end? | the guarded menus |
| `journal_overcount` (*KnownLossesOnly*) | is the declared count the count lost? | one life, two observations, one failure |
| `mail_link` (*PlaysItsMessage*) | does a mail's link play the message the mail is about? | two messages in one box |
| `contacts_half` (*HalfIsNeverSeen*) | can a call see half an address book? | the daemon and one command |

No suite checks for deadlock: each component is bounded, and comes to rest when
its callers, edits and mishaps are used up; a session whose last event was lost
waits for ever, and a daemon may stay down. That what should happen does happen
is the subject of `live`.

## Fairness

Fairness is given to the program's own goroutines and timers, never to what
callers, networks, providers or operators may do, with one exception (the upload,
below); mishaps are bounded, so that a property speaks of the time after the last
of them.

| part | what is fair, and why |
| --- | --- |
| ring | the session's goroutine runs when it can — its ring timer fires and its prompts end — and so do the router's and those that hang up orphans: Go's scheduler and Asterisk's timers. Nobody is obliged to pick up, to hang up or to transfer |
| menus | each session runs, a silence that lasts is noticed, a menu's deadline passes. Nobody is obliged to press or to stop pressing: that is why `MenuEnds` fails once a menu asks a sum |
| journal | the writer runs, the opening ends one way or the other, a process told to stop exits. The storage is not obliged to work |
| readers | the doorbell's timer rings, and an announcement is delivered and answered once no failure is left |
| sync, bell, upload | the poll loop, the socket's goroutine and the probe run; the nightly timer runs the upload again. One promise of the service is needed: it gives up a reservation whose address is past its time, as `upload.go:180` has it that the next command begins with a fresh one |
| policy, pass | the daemon starts when it is down and polls its files every second |
| pack | strong fairness for the installation: it may be killed again and again, and the operator runs it again; weak fairness for the switch |

## The proofs

A theorem holds for every value of the constants, under the assumptions the
modules name (`LadderAssumption`, `JournalAssumption`, `DoorAssumption`,
`SuiteAssumption`) or the theorem itself states: the components that a suite
instantiates carry no assumption of their own. Each module of proofs has an
inductive invariant `Inv`, a lemma for each action that it keeps `Inv`, and the
theorems that follow. TLC was asked about each `Inv`, on the instances of the
runs, before it was proved.

### RingLadderProofs

| theorem | says | assuming |
| --- | --- | --- |
| `TypeCorrect`, `OnlyTheWinnerIsJoined`, `UnansweredIsNeverBridged`, `TheWinnerTalksAlone` | types; who may be joined | nothing: events and replies may be lost |
| `NoLegIsForgotten` | a handset the session gives up on is hung up by the very step that gives it up | nothing |
| `NobodyHoldsADeadPhone` | a call that is over leaves no answered handset behind | no event lost; replies may be |
| `HandedOffIsSafe` | doorman never hangs up a caller the dialplan owns | no event and no reply lost |
| `PromiseIsKept` | `Spec => KeepsPromise`, the refinement of `CallPromise` | the same |

`Safe` (types, what a rung is dialling, and who may be bridged) is inductive by
itself and gives the first row; with what is true of legs that were dialled, are
gone or are to come (`FreshLegs`, `GoneIsGone`, `LegsExist`) it gives the second.
The last two need `Inv`, because the danger in a handoff is in the future: a
handset has transferred the caller, the session does not know it yet, and the
end of the winning leg would send it to clean up a channel it believes it owns.
`HandoverOK` says that then either the release is confirmed or the `StasisEnd`
stands in the wire *before* the end of the winning leg (`Announced`); that is
preserved only because the end of a leg is announced after it ended
(`GoneIsGone`), because no leg is dialled twice (`FreshLegs`), because a caller
can be transferred only while the session talks (`JoinedOK`), and because a
departure is recorded only after it happened (`DepartureOK`). The refinement adds
`RecordOK`: one record, posted at the end, and no release left pending over a
caller who is still there; each step maps to a step of the promise or to none.
The assumptions are needed: `ring_reply_lost` is the counterexample without one
of them, and `LostEventsHold` is what is left without the other.

### LobbyDoorProofs

`DoorInvariant` is `[]Inv`, and `Inv` is `CallsOK /\ LimitsOK /\ BudgetOK`.

| theorem | says |
| --- | --- |
| `TypeCorrect` | types |
| `GuardsAreHeld` | whatever the menus, what lies behind a sum is reached only by who solved it or was admitted |
| `AdmittedAreHeard` | an admitted caller who stays and chooses nothing reaches the house, by every way out |
| `GuessesAreBounded` | however many calls a number makes at once, its wrong PINs and wrong sums within one window stay within the budget and one call's attempts for every place |
| `OnlyPinsForgive` | a wrong PIN is forgiven early only by an admission or a right PIN of the same number |
| `DoorIsKept` | `Spec => DoorHolds`, all of the above, as the run `door` checks it |

`CallsOK` is a statement about one record — counters below their limits where
another is to be counted, a pass only for who earned it, a choice only from the
menu it was taken in, an outcome only at the end — and is preserved because each
function of the session is an operator from such records to such records: one
lemma for each operator, then one for each action.

The bound on guesses is not a bound on the limiter: a call looks at the limiter
once and then guesses. So the guesses a call may still make are counted as
*tokens*, of the line's places; `BudgetOK` says that failures within the window
and tokens of one number stay together below the bound. A wrong entry trades a
token for a failure (`Trade`), a call that is let in takes its tokens only while
the limiter shows room (`LetIn`), and every other step changes neither
(`QuietSteps`) or lowers the sum.

### JournalProofs

First the writer:

| theorem | says |
| --- | --- |
| `TypeCorrect` | the queue stays within its room, no count goes below zero |
| `CleanIsComplete` | a journal marked clean owes nothing |
| `NoLossUncounted` | losses are in a row, in the counter, or went down with a process |
| `DoubtComesFirst` | no row of this life before the doubt about the last one |
| `JournalTellsTheTruth` | `Spec => JournalIsHonest`, these together, as the run `journal` checks them |

`CleanMeansComplete` is not inductive: the mark is right because the queue was
seen empty after posts were shut out, so `Inv` adds what the writer holds
(`HandOK`), that a drained queue stays empty (`DrainOK`), that after the last
look only refused posts follow (`LastLookOK`), and that the flag is down while
anything is at risk (`FlagOK`).

Then the suite `MCJournal`, for every value of its constants:

| theorem | says |
| --- | --- |
| `TheJournalStaysHonest` | `SuiteSpec => JournalIsHonest` |
| `ALiveBoxIsSignedIn` | `SuiteSpec => AccountHolds` |
| `TheLoopIsWoken` | `SuiteSpec => []BellHolds` |
| `UploadsAreKept` | `SuiteSpec => []UploadHolds` |
| `ReadersAreServed` | `SuiteSpec => []ReadersHold` |

A behaviour of the suite begins in the initial state of one component
(`OnePartBegins`), and a step of it is a step of that component while everything
else stands still (`OnePartMoves`); so the writer's specification follows from
the suite's, and the invariant of an instance is an invariant of its part. The
suite takes these instances from the modules of their proofs, so that the lemmas
cited are about the very operators the run checks.

### AccountStoreProofs

For any number of enrolments, tokens, requests under way and lost replies
(`MaxLost \in Nat`; `TypeCorrect` also `MaxTokens \in Nat \ {0}`).

| theorem | says |
| --- | --- |
| `CredentialInvariant` | `[]Inv` |
| `NextTokenOfLiveIsTaken` | while the service holds an enrolment live, the token its store presents next is one the service takes |
| `NeverSignsItselfOut` | a box whose enrolment is live never believes it is signed out |
| `RevokedOnlyWhenOvertaken` | the service revokes a live enrolment only for a request of sync or the bell that was sent with a token the store has since replaced |
| `TypeCorrect` | types |

That the next token is taken is not inductive. A request with an older token may
yet be served, a late reply may yet be settled, and a command holds a copy that
it may or may not save. `Inv` says the same of the stored credential and of that
copy: the service takes its next token, nobody else will use its successor first
(`InService`), whatever a request was made with is of this enrolment or older
(`Newer`), and a refusal on its way is of an enrolment that is over
(`RequestOK`). None of this says that two requests of one box are harmless: the
last theorem says which of them the service takes for a thief's. A live
enrolment's store presents a token that does not revoke it, so what does is an
older one, read before a rotation and arriving after another used the successor.

### SyncMachineProofs

For every queue of commands, whatever their verbs (`IsFiniteSet(Items)`).

| theorem | says |
| --- | --- |
| `LedgerInvariant` | `[]Inv` |
| `AnswersAreKept` | no answer the service has is taken back; only *saved* becomes *applied* |
| `WrittenOnce` | a file is written only for a command without receipt or answer: a lost reply, a crash or a new generation never makes the same edit again |
| `SnapshotComesFirst` | when the service learns that a command was saved it holds a snapshot that includes it |
| `HistoryIsBounded` | the history of revisions stays within its limit and gives no revision two contents (`Kept \in Nat`) |

*At most once* looks one pass ahead: a receipt lost on its way brings the command
back, and a lost ledger forgets that it was made. So `Inv` says that whatever the
service was told in this generation the ledger still knows (`Remembered`), that
the snapshot believed published is the one the service has (`PublishedOK`), and
where a pass stands with the command in hand (`PassOK`): undecided from its look
at the ledger to its receipt, and of the present generation, so that no step
between the two meets another. The bound of the history comes from an invariant
of its own: the numbers in it are distinct and within a window of `Kept + 1`, and
an injection into the window bounds its cardinality.

### SyncBellProofs

For every number of commands, losses and sign-ins; no hypothesis.

| theorem | says |
| --- | --- |
| `BellInvariant` | `[]Inv` |
| `NobodyIsForgotten` | while a command is queued and the loop sleeps at the slow pace, something is on its way to wake it, or the socket is dead and nobody knows yet |
| `ReceiptsAreFollowed` | while a receipt waits for the daemon the follow-up does not sleep, unless the pass that saved it has yet to kick it |
| `TypeCorrect` | types |

The timer is armed at the pace of what the loop was last told, and a command may
be queued before or after that. What the property lacks is how the bell, its
socket and the word the loop has of them stand to each other: a healthy bell is
in a session on a socket (`SocketOK`); what the loop was told is what the bell
is, and a slow timer is that of a healthy bell unless word of the change is on
its way (`HealthOK`); and since the last pass fetched everything, a command that
waits under a healthy bell has rung or will, unless the socket is dead
(`QueuedOK`).

### BackupUploadProofs

For every set of bundles numbered from 1 and every number of mishaps
(`Numbered`).

| theorem | says |
| --- | --- |
| `UploadInvariant` | `[]Inv` |
| `OwedIsReadable` | wherever the command died, the ciphertext of the upload it owes is on the disk |
| `DoneIsStored` | a bundle reported as uploaded is one the service holds complete |
| `TypeCorrect` | types |

Both depend on where the command may stop between two saves of its state, and on
a reservation whose address may be past its time, which may have been completed
by a request whose answer was lost, or been removed by the owner, and on a
credential the service may refuse at any of them. `UploadOK` says what is pending at each
of its places, `HoldsOK` what the service may have been given under the
reservation that is kept.

### JournalReadersProofs

For every set of calls and endpoints, every number of rows and troubles, and
every size of the journal, of a deletion, of a scan and of a page (`Sizes`: scan
and page have room and there is an endpoint).

| theorem | says |
| --- | --- |
| `ReadersInvariant` | `[]Inv` |
| `NothingAcknowledgedUnheard` | an endpoint is never believed to have been told more than it was |
| `PagesSkipNothing` | a consumer that pages with its cursor is given every row of a call behind it, or told that it has lost it |
| `CallsAreListedOnce` | a call of which a summary is retained is listed once, whichever of its two came first |
| `TypeCorrect` | types |

The first needs to know that an answered request was heard (`RingOK`). The second
is about one page, which is the foremost of what a bounded scan found, filtered.
`Page` says of both that they leave out nothing before a row they have, and that
if they leave out anything they are full: so the cursor goes no further than the
last row of a full page, nor than the last row scanned when the page is not
full; and a floor that deletions move past the cursor is either told or not yet
read. The third holds of every journal: among the summaries of
one call exactly one has none that outranks it. That a nonempty finite set of
numbers has a greatest and a least member, which both pages and summaries need,
is proved once (`Greatest`, `First`), from a minimal subset among its tails.

### What is only model-checked

- Liveness (`CallsEnd`, `RowsAreTold`, `CloudAnswers`, `DaemonCatchesUp`): fairness
  and `ENABLED` are beyond the proof system.
- Of `SyncMachine`, that local work is kept and which commands leave a name without
  its book, and its types: what a plan does to the files is a recursion over the
  command's verbs, and induction over data cannot be stated to the installed
  provers. The five theorems above hold for any plan.
- `MenuHolds`: `GuardsHold` and `AdmittedReachTheHouse` of a second instance of the
  door. Both are proved of `LobbyDoor` for all its constants (`GuardsAreHeld`,
  `AdmittedAreHeard`); that they carry over to that instance, as they do in
  `MCJournal`, is not written out.
- The components without a module of proofs: of `calls` every part but the ladder
  (`WayOutHolds`, `WindowHolds`, `CreditHolds`, `GameHolds`, `BedtimeHolds`,
  `ListeningHolds`), of `door` the compiler (`RulesHold`), of `journal` what is not
  named above (`CelHolds`, `BackupHolds`, `RecoveryHolds`, `InboxHolds`,
  `RemindersHold`, `VoicemailHolds`), and of `stores` every part but the ladder, of
  which the theorems that assume nothing hold there too. Nothing in the prover
  forbids these, save for the few that fold over a list (the compiler's walks,
  merged address books, directories).

## What the code does otherwise than it says

Seven runs end in a violation:

- `ring_reply_lost`: an error from the voicemail handoff is taken for a handoff
  that did not happen; if the request took effect, a caller already in the
  mailbox is hung up, which the client's comment forbids.
- `ring_late_answer`: an answer that was queued when its rung timed out is taken
  by the next rung as its own; a leg already hung up wins, the call ends, and
  the record names nobody.
- `ring_stranded`: legs are hung up under the session's context and forgotten
  whatever comes of it, so a caller who leaves in that moment leaves a handset
  in the application with nobody to hang it up.
- `door_menu_held`: the menu's deadline is looked at between plays; a sum asked
  inside it is not bounded by it.
- `journal_overcount`: a failed flush that had no observation in hand counts one
  all the same, so one loss is declared many times over.
- `mail_link`: a pass reads the box once and makes each mail's link later, from
  the slot; when a message is deleted meanwhile and the slots move up, the link
  plays another message than its mail describes.
- `contacts_half`: every process writes a fetched address book to the same
  temporary name; when two fetch at once, one renames the file the other is
  still filling.

Elsewhere a property of a suite names the case in which the code does otherwise,
holds in all others, and says what is left in that one:

| where | what the code does | named in |
| --- | --- | --- |
| `phonegame/room.go:389-392` | any error of the request that rings an invited handset is taken for no call; if only the reply was lost the leg rings on, and stays alone in the application if it is answered while the room still invites it | `GameHolds` (`lost`, `heard`) |
| `policy.go:1441-1474`, `render.go:207-209` | a window that ends where it starts is accepted; the daemon is never asleep in it (`policy.go:333-337`), the dialplan all day, although "each window is written the way Afterhours.Active reads it" (`render.go:182`) | `BedtimeHolds` (`DialplanAgrees`) |
| `voicemail/notify.go:174-178` | when `voicemail.conf` cannot be read, the mail of every box goes to MAIL_TO, which is "somebody else's mailbox" for a box with an address of its own (`notify.go:168-171`) | `VoicemailHolds` (`blind`) |
| `syncmachine/apply.go:212-216`, `337-351` | files are written in the order the verbs first touch them, which nothing checks: "delivered books are written first" (`apply.go:79-81`) is so only of commands that put first; a command that selects first, stopped half way, leaves a name without its book, and the files are refused until a hand mends them | `SyncHolds` (`BooksFirst`) |
| `inbox/inbox.go:222-223` | both errors of writing the mark of a handled text are thrown away, so after a restart "a door opens once" (`inbox.go:170`) fails for that text | `InboxHolds` (`seen.lost`) |
| `inbox/shelf_flow.go:107-110`, `250-257`, `329-335` | a sender who may not use the words is told nothing; what such a one has on the shelf may still be saved | `InboxHolds` (`declined.told`) |
| `policy/lastgood.go:171-178` | trunks are read again for the copy and copied unchecked, against "only ever written from files the shared validator accepted" (`lastgood.go:23-24`) | `LastGoodHolds` (`unchecked`) |
| `policy/store.go:172-186`, `lobbypass.go:165-166`, `267` | the stamp is taken before the files are read: a file that is replaced and put back in between is held, or refused, under the stamp of what is there, until the next edit | `DaemonCatchesUp` (`misread`, `raced`) |
| `pack/pack.go:370-378`, `399-411` | the sound is written before its hash: after a build killed between them and a rewording back, old sound passes for current, against `pack.go:58-59` | `PackHolds` (`cut`) |
| `pack/activate.go:40-58` | what a hand writes into the environment file between its read and the write that follows is lost, at the switch and at the rollback | `PackHolds` (`stale`) |
| `mediadelivery/receive.go:256-293` | the first delivery that fails ends the pass over its source; those listed behind it wait until it is gone | `DeliveryHolds` (`Behind`) |
| `cmd/doorman/phonebook.go:269-302` | a file changed and put back between the two fingerprints is served under the fingerprint of what is there, although a selection and its books are to be "from the same accepted revision" (`phonebook.go:205`) | `BooksHold` (`putBack`) |
| `contacts/fetch.go:144-145`, `181-187` | a tag is kept by the source's name: when its address changes and the new one answers "not modified" to the old date, the copy of the old one stays in use. The same befalls a copy newer than its tag, when the server goes back | `ContactsHold` (`CurrentIsServed`) |
| `contacts/contacts.go:302` | a book given by path is read as it is, also half copied; it lends no number to another card | `ContactsHold` (`CutLendsNothing`) |
| `reminder/store.go:329-350` | the answer is what Asterisk waits for: if the process ends before its claim, the reminder is neither played nor tried again | `RemindersHold` |
| `events/doorbell.go:107-127` | announces whatever was appended, so the rows of other processes are announced at the next poll, not only "by the daemon's next commit" (`sibling.go:20-23`) | `RowsAreTold` |
| `account/store.go:78` | "two commands must never race a pending successor with its predecessor (which revokes the box)": sync and the bell send outside the lock, and do | `AccountHolds` (`OnlyTheOvertakenRevoke`) |

## What is not modelled

- **Next**: the webhook notifier and the call log. Both are bounded queues drained
  by one goroutine, much as the journal's.
- **Outside the process**: the edge worker is a hosted service; `InboxReader`
  takes from it only that a text is offered until it is acknowledged. The
  dialplan is Asterisk's; `Bedtime` and `WayOut` model what doorman renders of it.
- **No state of its own**: the activation query answers from an immutable
  snapshot; the sync wire types are generated; the other commands read, print and
  exit; signing, configuration and inventories are pure functions.
- **Conversions and scripts**: host and setup helpers, schemas, templates, the
  editor, voice, stories and speech, the site and the shop.

That a race of two requests may cost a box its enrolment (`account/store.go:78`)
is what the code does; no property says that it is impossible, and
`AccountHolds` says that nothing else of the box's own doing does it.

## The plan

Done: the ladder with its promise and proofs; the door with its proofs; the
journal's writer, its readers, the account, the bell, the upload and the sync
machine with their proofs, carried over to the suite they are checked in; the
rest of the components above as models.

1. Proofs, in the order of what they say: of `PolicyStore` and `LobbyPass`, that
   the last good copy is good; of `VoicemailMail`, that a message is mailed once
   and to its own box; of `WayOut`, that an emergency call finds a way out.
2. The refinement of an abstract outbox (offered, answered, never taken back) by
   `SyncMachine` and `MediaDelivery`.
3. Models of the webhook notifier and the call log.
4. One module that composes `LobbyDoor` with `RingLadder`, so that a place under
   `MaxConcurrentCalls` is followed from arrival to `OnFinished`.
